---- MODULE Spec2Model ----
(***************************************************************************)
(* A model of jobber's log fan-out (src/job/feeder.go): the infeed         *)
(* goroutine that cuts a job's output into Log records, the feeder loop    *)
(* that buffers them and multiplexes them to outfeeds with reflect.Select, *)
(* and the consumers of the outfeed channels; and of the Tracker           *)
(* (src/job/tracker.go) with the Jobs it starts, stops and lists           *)
(* (src/job/job.go) and the List of the service in front of it.            *)
(***************************************************************************)
EXTENDS Integers, Sequences, FiniteSets, TLC

\* ------------------------------------------------------------------------
\* Bounds of the model
\* ------------------------------------------------------------------------

\* Number of consumers that may attach an outfeed.
NumSubs == 2

\* Number of lines of output of the job in the feeder specification.
MaxRecords == 2

\* Largest reading of the clock.
MaxTime == 1

\* Number of newline-terminated lines of a stream of ByteStreams.
MaxLines == 1

Subs == 1 .. NumSubs

\* Number of Jobs that Tracker.Start creates.
MaxJobs == 2

\* Number of lines that a child of the tracker specification writes.
MaxOutput == 1

\* ------------------------------------------------------------------------
\* Program constants
\* ------------------------------------------------------------------------

\* const maxLineSize = 512: the size of the bufio.Reader.
maxLineSize == 512

\* '\n'
NL == 10

\* f.outOffset = len(f.cases) once Start has appended the done case to the
\* control and infeed cases.
outOffset == 3

\* ------------------------------------------------------------------------
\* Values
\* ------------------------------------------------------------------------

Min(a, b) == IF a < b THEN a ELSE b

\* type Log struct { Timestamp time.Time; Line []byte }
Log(ts, line) == [Timestamp |-> ts, Line |-> line]

\* The zero reflect.Value in the Send field of a case.
NoLog == Log(-1, <<>>)

\* A channel as a reflect.Value: its kind and the consumer it belongs to.
Chan(k, s) == [k |-> k, s |-> s]

\* disabled := reflect.Value{}
disabled == Chan("disabled", 0)

\* reflect.SelectCase{Dir, Chan, Send}
SelectCase(dir, ch, send) == [Dir |-> dir, Chan |-> ch, Send |-> send]

\* type outfeed struct: ch and done are the channels of consumer sub.
Outfeed(s, pos, follow) == [sub |-> s, pos |-> pos, follow |-> follow]

\* slices.Delete(s, i, j): s without s[i:j] (0-based, j exclusive).
Delete(s, i, j) == SubSeq(s, 1, i) \o SubSeq(s, j + 1, Len(s))

\* ------------------------------------------------------------------------
\* bufio.Reader, as infeed uses it
\* ------------------------------------------------------------------------

\* bytes.IndexByte, 1-based, 0 when c is not in s.
IndexByte(s, c) ==
    IF \E i \in 1 .. Len(s) : s[i] = c
    THEN CHOOSE i \in 1 .. Len(s) : s[i] = c /\ \A j \in 1 .. i - 1 : s[j] # c
    ELSE 0

\* A reader is the bytes still to come and the error that ends them.
Reader(data, err) == [data |-> data, err |-> err]

\* bufio.Reader.ReadSlice('\n') on a reader of size maxLineSize: the line up
\* to the delimiter when it is within the buffer, the rest and the error
\* when the stream ends first, a full buffer and ErrBufferFull otherwise.
ReadSlice(rd) ==
    LET w == SubSeq(rd.data, 1, Min(maxLineSize, Len(rd.data)))
        i == IndexByte(w, NL)
    IN  IF i > 0
        THEN [line |-> SubSeq(rd.data, 1, i), err |-> "nil",
              rd |-> Reader(SubSeq(rd.data, i + 1, Len(rd.data)), rd.err)]
        ELSE IF Len(rd.data) < maxLineSize
        THEN [line |-> rd.data, err |-> rd.err, rd |-> Reader(<<>>, rd.err)]
        ELSE [line |-> w, err |-> "ErrBufferFull",
              rd |-> Reader(SubSeq(rd.data, maxLineSize + 1, Len(rd.data)), rd.err)]

\* bufio.Reader.ReadBytes('\n'): collectFragments calls ReadSlice until it
\* returns something other than ErrBufferFull, and the full buffers and the
\* final fragment are returned as one slice.
RECURSIVE ReadBytes(_)
ReadBytes(rd) ==
    LET s == ReadSlice(rd)
    IN  IF s.err = "ErrBufferFull"
        THEN LET t == ReadBytes(s.rd)
             IN  [line |-> s.line \o t.line, err |-> t.err, rd |-> t.rd]
        ELSE s

\* err != nil && err != bufio.ErrBufferFull: the infeed loop breaks.
Breaks(err) == err # "nil" /\ err # "ErrBufferFull"

\* ------------------------------------------------------------------------
\* State
\* ------------------------------------------------------------------------

VARIABLES
    r,            \* infeed: the io.Reader r (the job's output still unread)
    pcIn,         \* infeed and reaper goroutine: "read", "send", "close", "closed", "reaped"
    pending,      \* infeed: the Log of the blocked send out <- Log{...}
    lastErr,      \* infeed: err of the last ReadBytes
    clock,        \* the last reading of time.Now()
    output,       \* the whole output of the job, read or not
    buffer,       \* feeder.buffer
    outfeeds,     \* feeder.outfeeds
    cases,        \* feeder.cases
    infeedClosed, \* feeder.infeedClosed
    exited,       \* feeder.Start has returned
    doneClosed,   \* Job.done is closed
    sub,          \* per consumer: the state of its outfeed channel
    received,     \* per consumer: the Logs received from its channel
    cancelled,    \* per consumer: its done channel is closed
    jobs,         \* Tracker.jobs: id -> *Job, a pointer being an index of heap
    heap,         \* every Job that NewJob has made, tracked or not
    waiting,      \* the Tracker.Stop that holds Tracker.mu in the select of Job.Stop
    resp,         \* what the last call of the Tracker returned to its caller
    proc          \* a launch: ExecPart1 in the parent and ExecPart2 in its child

trackerVars == <<jobs, heap, waiting, resp, proc>>

vars == <<r, pcIn, pending, lastErr, clock, output, buffer, outfeeds, cases,
          infeedClosed, exited, doneClosed, sub, received, cancelled,
          jobs, heap, waiting, resp, proc>>

inVars == <<r, pcIn, pending, lastErr, clock, output>>
feederVars == <<buffer, outfeeds, cases, infeedClosed, exited>>
subVars == <<sub, received, cancelled>>

\* No call of the Tracker has returned, or its caller has taken what it
\* returned.
NoResp == [op |-> "none"]

\* No Tracker.Stop is waiting in Job.Stop.
NoCall == [op |-> "none"]

\* No launch is looked at step by step.
NoProc == [pc |-> "none"]

\* NewTracker: no Job.
InitTracker ==
    /\ jobs = [id \in {} |-> 0]
    /\ heap = <<>>
    /\ waiting = NoCall
    /\ resp = NoResp
    /\ proc = NoProc

\* A consumer that has not called attachOutfeed.
Idle == [st |-> "idle", follow |-> FALSE, closedBy |-> "none",
         attachEarly |-> FALSE, attachSealed |-> FALSE, closes |-> 0]

\* The lines of output of the job in the feeder specification: line k is
\* the byte k and a newline.
RECURSIVE Lines(_)
Lines(n) == IF n = 0 THEN <<>> ELSE Lines(n - 1) \o <<n, NL>>

\* newFeeder, and Start up to its loop.
InitFeeder ==
    /\ buffer = <<>>
    /\ outfeeds = <<>>
    /\ cases = << SelectCase("recv", Chan("control", 0), NoLog),
                  SelectCase("recv", Chan("infeed", 0), NoLog),
                  SelectCase("recv", Chan("done", 0), NoLog) >>
    /\ infeedClosed = FALSE
    /\ exited = FALSE
    /\ doneClosed = FALSE
    /\ sub = [s \in Subs |-> Idle]
    /\ received = [s \in Subs |-> <<>>]
    /\ cancelled = [s \in Subs |-> FALSE]

InitInfeed(streams, now) ==
    /\ r \in streams
    /\ output = r.data
    /\ pcIn = "read"
    /\ pending = NoLog
    /\ lastErr = "nil"
    /\ clock = now

Init ==
    /\ InitInfeed({Reader(Lines(n), "EOF") : n \in 0 .. MaxRecords}, 0)
    /\ InitFeeder
    /\ InitTracker

\* ------------------------------------------------------------------------
\* infeed and the reaper goroutine of Job.Start
\* ------------------------------------------------------------------------

\* An infeed that sends a line only when its read returned no error.
ShouldSendWithoutError(line, err) == Len(line) > 0 /\ err = "nil"

\* if len(line) > 0
ShouldSend(line, err) == Len(line) > 0

\* line, err := buf.ReadBytes('\n'); a line that is not empty is sent with
\* the time of the send, an empty one is skipped.
InfeedRead ==
    /\ pcIn = "read"
    /\ LET rb == ReadBytes(r)
       IN  /\ r' = rb.rd
           /\ lastErr' = rb.err
           /\ output' = output
           /\ IF ShouldSend(rb.line, rb.err)
              THEN \E now \in clock .. Min(clock + 1, MaxTime) :
                      /\ clock' = now
                      /\ pending' = Log(now, rb.line)
                      /\ pcIn' = "send"
              ELSE /\ UNCHANGED <<clock, pending>>
                   /\ pcIn' = IF Breaks(rb.err) THEN "close" ELSE "read"
    /\ UNCHANGED <<trackerVars, feederVars, doneClosed, subVars>>

\* close(out)
InfeedClose ==
    /\ pcIn = "close"
    /\ pcIn' = "closed"
    /\ UNCHANGED <<trackerVars, r, pending, lastErr, clock, output, feederVars, doneClosed, subVars>>

\* A goroutine of Job.Start that goes on to cmd.Wait() while infeed is
\* blocked in the send of a Log.
ReapWhileSending ==
    /\ pcIn \in {"send", "closed"}
    /\ pcIn' = "reaped"
    /\ UNCHANGED <<trackerVars, r, pending, lastErr, clock, output, feederVars, doneClosed, subVars>>

\* cmd.Wait() has returned and the job is Completed.
Reap ==
    /\ pcIn = "closed"
    /\ pcIn' = "reaped"
    /\ UNCHANGED <<trackerVars, r, pending, lastErr, clock, output, feederVars, doneClosed, subVars>>

\* infeed has left its loop: every Log of the job has been sent.
Sealed == pcIn \in {"closed", "reaped"}

\* ------------------------------------------------------------------------
\* The callers of the feeder
\* ------------------------------------------------------------------------

\* attachOutfeed up to its send f.control <- feed, which blocks until the
\* feeder receives it. Consumers are interchangeable: they are numbered in
\* the order of their calls.
AttachOutfeed(s, follow) ==
    /\ sub[s].st = "idle"
    /\ \A t \in 1 .. s - 1 : sub[t].st # "idle"
    /\ sub' = [sub EXCEPT ![s].st = "attaching", ![s].follow = follow]
    /\ UNCHANGED <<trackerVars, inVars, feederVars, doneClosed, received, cancelled>>

\* The done channel given to attachOutfeed is closed (the context of
\* GetLogChannel is cancelled). The feeder first looks at the channel when
\* it has the outfeed, so a cancellation before that is one right after it.
Cancel(s) ==
    /\ sub[s].st = "open"
    /\ ~cancelled[s]
    /\ cancelled' = [cancelled EXCEPT ![s] = TRUE]
    /\ UNCHANGED <<trackerVars, inVars, feederVars, doneClosed, sub, received>>

\* Job.Cleanup: close(j.done)
Cleanup ==
    /\ ~doneClosed
    /\ doneClosed' = TRUE
    /\ UNCHANGED <<trackerVars, inVars, feederVars, subVars>>

\* ------------------------------------------------------------------------
\* feeder
\* ------------------------------------------------------------------------

\* f.cases[i], i counted from 0 as in the code.
CaseAt(cs, i) == cs[i + 1]

\* close(ch) of consumer s; why records which statement closed it, and
\* closes counts the calls of close for the channel.
CloseCh(subs, s, why) ==
    [subs EXCEPT ![s].st = "closed", ![s].closedBy = why, ![s].closes = @ + 1]

\* The select case of an outfeed's channel when the feed has a Log to send,
\* as addOutfeed and wakeSleepers set it: Chan is the feed's channel and
\* Send is f.buffer[feed.pos].
ArmedCase(c, feed, buf) ==
    [c EXCEPT !.Chan = Chan("ch", feed.sub), !.Send = buf[feed.pos + 1]]

\* An addOutfeed whose select case for the feed's done channel has no
\* channel.
addOutfeedCasesNoDone(cs, feed, buf) ==
    LET c == SelectCase("send", disabled, NoLog)
    IN  cs \o << IF feed.pos < Len(buf) THEN ArmedCase(c, feed, buf) ELSE c,
                 SelectCase("recv", disabled, NoLog) >>

\* addOutfeed from its append on: the feed and its two select cases.
addOutfeedCases(cs, feed, buf) ==
    LET c == SelectCase("send", disabled, NoLog)
    IN  cs \o << IF feed.pos < Len(buf) THEN ArmedCase(c, feed, buf) ELSE c,
                 SelectCase("recv", Chan("cancel", feed.sub), NoLog) >>

\* A feeder whose wakeSleepers leaves the cases as they are.
wakeSleepersNot(cs, fs, buf) == cs

\* wakeSleepers: every disabled outfeed case whose feed is behind the end of
\* the buffer is set up to send f.buffer[feed.pos].
wakeSleepers(cs, fs, buf) ==
    [k \in 1 .. Len(cs) |->
        IF \E i \in 0 .. Len(fs) - 1 :
              /\ k = i * 2 + outOffset + 1
              /\ cs[k].Chan = disabled
              /\ fs[i + 1].pos < Len(buf)
        THEN ArmedCase(cs[k], fs[((k - 1 - outOffset) \div 2) + 1], buf)
        ELSE cs[k]]

\* The loop of removeSleepers from outfeed i on: the feeds and cases kept,
\* and the consumers whose channel is closed.
RECURSIVE keepEnabled(_, _, _)
keepEnabled(cs, fs, i) ==
    IF i >= Len(fs)
    THEN [feeds |-> <<>>, cases |-> <<>>, closed |-> {}]
    ELSE LET rest == keepEnabled(cs, fs, i + 1)
             caseIdx == i * 2 + outOffset
         IN  IF CaseAt(cs, caseIdx).Chan = disabled
             THEN [rest EXCEPT !.closed = @ \cup {fs[i + 1].sub}]
             ELSE [feeds |-> <<fs[i + 1]>> \o rest.feeds,
                   cases |-> <<CaseAt(cs, caseIdx), CaseAt(cs, caseIdx + 1)>> \o rest.cases,
                   closed |-> rest.closed]

\* A removeSleepers that closes the channels of the sleeping feeds and
\* keeps the feeds and their cases.
removeSleepersKeepsFeeds(cs) ==
    LET kept == keepEnabled(cs, outfeeds, 0)
    IN  /\ outfeeds' = outfeeds
        /\ cases' = cs
        /\ sub' = [s \in Subs |->
                     IF s \in kept.closed THEN CloseCh(sub, s, "sealed")[s] ELSE sub[s]]

\* removeSleepers on the cases cs: the sleeping feeds are closed and removed.
removeSleepers(cs) ==
    LET kept == keepEnabled(cs, outfeeds, 0)
    IN  /\ outfeeds' = kept.feeds
        /\ cases' = SubSeq(cs, 1, outOffset) \o kept.cases
        /\ sub' = [s \in Subs |->
                     IF s \in kept.closed THEN CloseCh(sub, s, "sealed")[s] ELSE sub[s]]

\* A removeOutfeed that takes the last two select cases away, not the two
\* of outfeed i.
removeOutfeedLastCases(cs, fs, i, why) ==
    /\ sub' = CloseCh(sub, fs[i + 1].sub, why)
    /\ outfeeds' = Delete(fs, i, i + 1)
    /\ cases' = Delete(cs, Len(cs) - 2, Len(cs))

\* removeOutfeed(i) on the feeds fs and cases cs.
removeOutfeed(cs, fs, i, why) ==
    LET caseIdx == i * 2 + outOffset
    IN  /\ sub' = CloseCh(sub, fs[i + 1].sub, why)
        /\ outfeeds' = Delete(fs, i, i + 1)
        /\ cases' = Delete(cs, caseIdx, caseIdx + 2)

\* An addOutfeed that closes the channel of a feed that does not follow,
\* and of any feed once infeed is closed, wherever the feed is.
ClosesOnAttachAnyPos(feed) == ~feed.follow \/ infeedClosed

\* feed.pos >= len(f.buffer) && (!feed.follow || f.infeedClosed): addOutfeed
\* closes the channel and returns.
ClosesOnAttach(feed) ==
    feed.pos >= Len(buffer) /\ (~feed.follow \/ infeedClosed)

\* case i == 0 && ok: the feeder receives the outfeed that consumer s is
\* sending on f.control, and addOutfeed adds it or closes its channel.
Control(s) ==
    /\ ~exited
    /\ sub[s].st = "attaching"
    /\ LET feed == Outfeed(s, 0, sub[s].follow)
           attached == [sub EXCEPT ![s].st = "open",
                                   ![s].attachEarly = (r.data = output),
                                   ![s].attachSealed = Sealed]
       IN  IF ClosesOnAttach(feed)
           THEN /\ sub' = CloseCh(attached, s, "attach")
                /\ UNCHANGED <<outfeeds, cases>>
           ELSE /\ sub' = attached
                /\ outfeeds' = Append(outfeeds, feed)
                /\ cases' = addOutfeedCases(cases, feed, buffer)
    /\ UNCHANGED <<trackerVars, inVars, buffer, infeedClosed, exited, doneClosed, received, cancelled>>

\* A feeder that puts the new Log at the front of the buffer.
appendLogInFront(buf, l) == <<l>> \o buf

\* f.buffer = append(f.buffer, l)
appendLog(buf, l) == Append(buf, l)

\* A feeder that takes no Log while an outfeed has one to send.
InfeedEnabledWhenAllSleep ==
    /\ CaseAt(cases, 1).Chan # disabled
    /\ \A k \in outOffset + 1 .. Len(cases) :
          cases[k].Dir = "send" => cases[k].Chan = disabled

\* case i == 1 of the select is the infeed channel unless it is disabled.
InfeedEnabled == CaseAt(cases, 1).Chan # disabled

\* case i == 1 && ok: the feeder receives the Log that infeed is sending,
\* appends it to the buffer and wakes the sleepers; infeed goes on to test
\* the error of its read.
InfeedRecv ==
    /\ ~exited
    /\ InfeedEnabled
    /\ pcIn = "send"
    /\ buffer' = appendLog(buffer, pending)
    /\ cases' = wakeSleepers(cases, outfeeds, buffer')
    /\ pending' = NoLog
    /\ pcIn' = IF Breaks(lastErr) THEN "close" ELSE "read"
    /\ UNCHANGED <<trackerVars, r, lastErr, clock, output, outfeeds, infeedClosed, exited,
                   doneClosed, subVars>>

\* case i == 1 && !ok: the infeed channel is closed.
InfeedClosed ==
    /\ ~exited
    /\ InfeedEnabled
    /\ pcIn \in {"closed", "reaped"}
    /\ infeedClosed' = TRUE
    /\ removeSleepers([cases EXCEPT ![2].Chan = disabled])
    /\ UNCHANGED <<trackerVars, inVars, buffer, exited, doneClosed, received, cancelled>>

\* A Start that returns when the done channel of the job is closed and
\* leaves the channels of its outfeeds open.
DoneWithoutClose ==
    /\ ~exited
    /\ doneClosed
    /\ exited' = TRUE
    /\ UNCHANGED <<trackerVars, inVars, buffer, outfeeds, cases, infeedClosed, doneClosed,
                   subVars>>

\* case i == 2: the done channel of the job is closed; every outfeed's
\* channel is closed and Start returns.
Done ==
    /\ ~exited
    /\ doneClosed
    /\ sub' = [s \in Subs |->
                 IF \E k \in 1 .. Len(outfeeds) : outfeeds[k].sub = s
                 THEN CloseCh(sub, s, "shutdown")[s]
                 ELSE sub[s]]
    /\ exited' = TRUE
    /\ UNCHANGED <<trackerVars, inVars, buffer, outfeeds, cases, infeedClosed, doneClosed,
                   received, cancelled>>

\* A feeder that serves its outfeeds in their order: a send waits for the
\* sends of the cases before it.
CaseReadyInOrder(c) ==
    \/ /\ c.Dir = "send" /\ c.Chan.k = "ch" /\ sub[c.Chan.s].st = "open"
       /\ \A k \in outOffset + 1 .. Len(cases) :
             (cases[k].Dir = "send" /\ cases[k].Chan.k = "ch")
                => \E j \in 1 .. k : cases[j] = c
    \/ c.Dir = "recv" /\ c.Chan.k = "cancel" /\ cancelled[c.Chan.s]

\* reflect.Select may choose case c: a send on a channel its consumer is
\* receiving from, or a receive from a done channel that is closed.
CaseReady(c) ==
    \/ c.Dir = "send" /\ c.Chan.k = "ch" /\ sub[c.Chan.s].st = "open"
    \/ c.Dir = "recv" /\ c.Chan.k = "cancel" /\ cancelled[c.Chan.s]

\* The consumer's side of select case c being chosen: the consumer of a send
\* case receives the Log of its Send field.
Communicate(c) ==
    received' = IF c.Dir = "send"
                THEN [received EXCEPT ![c.Chan.s] = Append(@, c.Send)]
                ELSE received

\* A feeder that removes a follower at the end of the buffer.
ShouldSleepNever(feed) == FALSE

\* A feeder that lets any feed sleep at the end of the buffer.
ShouldSleepAnyFeed(feed) == ~infeedClosed

\* A feeder that lets a follower sleep at the end of the buffer also when
\* infeed has closed its channel.
ShouldSleepFollower(feed) == feed.follow

\* feed.follow && !f.infeedClosed: a feed at the end of the buffer sleeps.
ShouldSleep(feed) == feed.follow /\ ~infeedClosed

\* A feeder that does not advance the position of the feed.
AdvancePosNot(feed) == feed

\* feed.pos++
AdvancePos(feed) == [feed EXCEPT !.pos = @ + 1]

\* case isOutfeed: select case i, which is the channel of outfeed feedIdx,
\* was chosen. The feed moves to its next Log, sleeps, or is removed.
OutfeedSend(i) ==
    /\ ~exited
    /\ i >= outOffset /\ (i - outOffset) % 2 = 0
    /\ CaseReady(CaseAt(cases, i))
    /\ Communicate(CaseAt(cases, i))
    /\ LET feedIdx == (i - outOffset) \div 2
           feed == AdvancePos(outfeeds[feedIdx + 1])
           fs == [outfeeds EXCEPT ![feedIdx + 1] = feed]
       IN  IF feed.pos < Len(buffer)
           THEN /\ cases' = [cases EXCEPT ![i + 1].Send = buffer[feed.pos + 1]]
                /\ outfeeds' = fs
                /\ sub' = sub
           ELSE IF ShouldSleep(feed)
           THEN /\ cases' = [cases EXCEPT ![i + 1].Chan = disabled]
                /\ outfeeds' = fs
                /\ sub' = sub
           ELSE removeOutfeed(cases, fs, feedIdx, "end")
    /\ UNCHANGED <<trackerVars, inVars, buffer, infeedClosed, exited, doneClosed, cancelled>>

\* case isOutfeedDone: select case i, which is the done channel of outfeed
\* feedIdx, was chosen: the feed is removed.
OutfeedDone(i) ==
    /\ ~exited
    /\ i >= outOffset /\ (i - outOffset) % 2 = 1
    /\ CaseReady(CaseAt(cases, i))
    /\ Communicate(CaseAt(cases, i))
    /\ removeOutfeed(cases, outfeeds, (i - outOffset) \div 2, "cancel")
    /\ UNCHANGED <<trackerVars, inVars, buffer, infeedClosed, exited, doneClosed, cancelled>>

\* ------------------------------------------------------------------------
\* Specifications
\* ------------------------------------------------------------------------

FeederNext ==
    \/ \E s \in Subs : Control(s)
    \/ InfeedRecv
    \/ InfeedClosed
    \/ Done
    \/ \E i \in outOffset .. Len(cases) - 1 : OutfeedSend(i)
    \/ \E i \in outOffset .. Len(cases) - 1 : OutfeedDone(i)

Next ==
    \/ InfeedRead
    \/ InfeedClose
    \/ Reap
    \/ \E s \in Subs, follow \in BOOLEAN : AttachOutfeed(s, follow)
    \/ \E s \in Subs : Cancel(s)
    \/ Cleanup
    \/ FeederNext

Spec == Init /\ [][Next]_vars

\* n bytes without a newline, binary ones among them.
Bytes(n, seed) ==
    [i \in 1 .. n |->
        LET b == (i * 37 + seed * 101) % 256 IN IF b = NL THEN 0 ELSE b]

\* The lengths of the lines of a stream, without their newline, and of its
\* last line, which has none.
LineLens == {0, 1, 76, 511, 512, 513, 1100}
TailLens == {0, 1, 76, 512, 1100}

\* The stream of the lines of lengths ls, each with its newline.
RECURSIVE LinesOf(_)
LinesOf(ls) ==
    IF ls = <<>> THEN <<>>
    ELSE LinesOf(SubSeq(ls, 1, Len(ls) - 1)) \o Bytes(ls[Len(ls)], Len(ls)) \o <<NL>>

\* Outputs of at most MaxLines lines and a last line without a newline.
ByteStreams ==
    { LinesOf(ls) \o Bytes(tl, 0) :
        ls \in UNION {[1 .. k -> LineLens] : k \in 0 .. MaxLines}, tl \in TailLens }

\* infeed and the feeder's cases for it, on an output that ends with EOF or
\* with another error of the read.
InitBytes ==
    /\ InitInfeed({Reader(d, e) : d \in ByteStreams, e \in {"EOF", "EIO"}}, 0)
    /\ InitFeeder
    /\ InitTracker

NextInfeed ==
    \/ InfeedRead
    \/ InfeedClose
    \/ Reap
    \/ InfeedRecv
    \/ InfeedClosed

SpecInfeed == InitBytes /\ [][NextInfeed]_vars

\* The consumer that may stop receiving from its channel for ever.
SlowSub == CHOOSE s \in Subs : \A t \in Subs : s <= t

\* The feeder's select chooses the send of a Log to consumer s.
Deliver(s) ==
    \E i \in outOffset .. Len(cases) - 1 :
        CaseAt(cases, i).Chan = Chan("ch", s) /\ OutfeedSend(i)

\* The feeder's select chooses the done channel of consumer s.
Detach(s) ==
    \E i \in outOffset .. Len(cases) - 1 :
        CaseAt(cases, i).Chan = Chan("cancel", s) /\ OutfeedDone(i)

\* The goroutines of infeed and of the feeder run, reflect.Select chooses
\* among the ready cases at random, so that a case that stays ready is
\* chosen, and every consumer but SlowSub keeps receiving from its channel.
\* Nothing makes a caller attach, cancel or clean up.
Fairness ==
    /\ WF_vars(InfeedRead)
    /\ WF_vars(InfeedClose)
    /\ WF_vars(Reap)
    /\ WF_vars(InfeedRecv)
    /\ WF_vars(InfeedClosed)
    /\ WF_vars(Done)
    /\ \A s \in Subs : WF_vars(Control(s))
    /\ \A s \in Subs : WF_vars(Detach(s))
    /\ \A s \in Subs \ {SlowSub} : WF_vars(Deliver(s))

\* The feeder specification when the clock stands at MaxTime.
FairInit ==
    /\ InitInfeed({Reader(Lines(n), "EOF") : n \in 0 .. MaxRecords}, MaxTime)
    /\ InitFeeder
    /\ InitTracker

FairSpec == FairInit /\ [][Next]_vars /\ Fairness

\* ------------------------------------------------------------------------
\* Properties of the feeder
\* ------------------------------------------------------------------------

\* The consumers whose channel the feeder closed for another reason than
\* the consumer's cancellation or the shutdown of the feeder.
Drained(s) ==
    sub[s].st = "closed" /\ sub[s].closedBy \in {"attach", "end", "sealed"}

IsPrefix(p, q) == Len(p) <= Len(q) /\ p = SubSeq(q, 1, Len(p))

\* C1: what a consumer has received from its outfeed is at all times a
\* prefix of the buffer: the records arrive in the order of the buffer from
\* its first record on, none is missing, repeated or out of order.
C1_ReceivedIsPrefixOfBuffer ==
    \A s \in Subs : IsPrefix(received[s], buffer)

\* C1 witness: two consumers at different places of a buffer with several
\* records, one of them cancelled and closed after its first record.
C1_Witness ==
    /\ Len(buffer) = MaxRecords
    /\ \E s, t \in Subs :
          /\ received[s] = buffer
          /\ Len(received[t]) = 1
          /\ sub[t].closedBy = "cancel"

\* C2 as stated: two consumers attached before the first record of the job,
\* whatever their follow flags, and closed neither by a cancellation nor by
\* the shutdown, have received the same records.
C2_EarlyConsumersReceiveTheSame ==
    \A s, t \in Subs :
        (/\ sub[s].attachEarly /\ sub[t].attachEarly
         /\ Drained(s) /\ Drained(t))
        => received[s] = received[t]

\* C2 amended: two consumers attached before the first record of the job
\* with the same follow flag, and closed neither by a cancellation nor by the
\* shutdown, have received the same records.
C2_EarlyConsumersOfSameFollowReceiveTheSame ==
    \A s, t \in Subs :
        (/\ sub[s].attachEarly /\ sub[t].attachEarly
         /\ sub[s].follow = sub[t].follow
         /\ Drained(s) /\ Drained(t))
        => received[s] = received[t]

\* C2 witness: two followers attached before the first record, both closed
\* at the end of the output, with all the records of a job that had several.
C2_Witness ==
    \E s, t \in Subs :
        /\ s # t
        /\ sub[s].attachEarly /\ sub[t].attachEarly
        /\ sub[s].follow /\ sub[t].follow
        /\ Drained(s) /\ Drained(t)
        /\ Len(received[s]) = MaxRecords
        /\ Len(received[t]) = MaxRecords

\* The feed of consumer s is among the outfeeds of the feeder.
HasFeed(s) == \E k \in 1 .. Len(outfeeds) : outfeeds[k].sub = s

\* The feeder closes the channel of consumer s in this step, for the reason
\* why.
Closes(s, why) == sub[s].st # "closed" /\ sub'[s].st = "closed" /\ sub'[s].closedBy = why

\* C5: an outfeed that does not follow never sleeps. While the feeder has
\* it, its select case is enabled and its position is before the end of the
\* buffer; a consumer that attaches it to an empty buffer has its channel
\* closed in addOutfeed; the feeder closes it when it has sent the last
\* record the buffer has then, and does not wait for infeed to close; and
\* as the buffer only grows, the consumer has by then received the records
\* that were in the buffer when it attached.
C5_NonFollowerNeverSleeps ==
    /\ [](\A k \in 1 .. Len(outfeeds) :
            ~outfeeds[k].follow =>
               /\ CaseAt(cases, (k - 1) * 2 + outOffset).Chan = Chan("ch", outfeeds[k].sub)
               /\ outfeeds[k].pos < Len(buffer))
    /\ [](\A s \in Subs :
            /\ (sub[s].st = "open" /\ ~sub[s].follow) => HasFeed(s)
            /\ (Drained(s) /\ ~sub[s].follow) => sub[s].closedBy # "sealed")
    /\ [][\A s \in Subs :
            /\ (sub[s].st = "attaching" /\ sub'[s].st # "attaching"
                    /\ ~sub[s].follow /\ buffer = <<>>)
                  => Closes(s, "attach")
            /\ (~sub[s].follow /\ (Closes(s, "attach") \/ Closes(s, "end")))
                  => received'[s] = buffer']_vars
    /\ [][IsPrefix(buffer, buffer')]_vars

\* C5 witness: a consumer that does not follow was closed at the end of the
\* buffer when it had received the one record in it, and the buffer has
\* got another record since.
C5_Witness ==
    \E s \in Subs :
        /\ ~sub[s].follow
        /\ sub[s].closedBy = "end"
        /\ Len(received[s]) = 1
        /\ Len(buffer) = 2

\* C6: while infeed is blocked in the send of a Log and the feeder has not
\* returned, the feeder's step that receives the Log is enabled, whatever
\* the outfeeds and their consumers do.
C6_ProducerNeverBlocked ==
    (pcIn = "send" /\ ~exited) => ENABLED InfeedRecv

\* C6 witness: infeed is sending its second Log while every consumer has an
\* outfeed with a record to receive and has not received anything.
C6_Witness ==
    /\ pcIn = "send"
    /\ ~exited
    /\ Len(buffer) = 1
    /\ Len(outfeeds) = NumSubs
    /\ \A s \in Subs : received[s] = <<>> /\ sub[s].st = "open"

\* C10: the timestamps of the records a consumer has received do not
\* decrease in the order it received them.
C10_TimestampsNonDecreasing ==
    \A s \in Subs : \A i, j \in 1 .. Len(received[s]) :
        i < j => received[s][i].Timestamp <= received[s][j].Timestamp

\* C10 witness: a consumer has received records of different timestamps.
C10_Witness ==
    \E s \in Subs :
        /\ Len(received[s]) >= 2
        /\ received[s][1].Timestamp < received[s][2].Timestamp

\* ------------------------------------------------------------------------
\* Properties of the feeder under fairness
\* ------------------------------------------------------------------------

\* The select case of the channel of consumer s is enabled: the feeder has
\* a Log to send to it.
Armed(s) ==
    /\ ~exited
    /\ sub[s].st = "open"
    /\ \E i \in outOffset .. Len(cases) - 1 :
          CaseAt(cases, i).Dir = "send" /\ CaseAt(cases, i).Chan = Chan("ch", s)

\* C3: a consumer that attached after infeed closed its channel, following
\* or not, and whose channel the feeder closed for another reason than a
\* cancellation or the shutdown, has received exactly the buffer (nothing
\* when the buffer is empty, and then a consumer that does not follow is
\* closed in addOutfeed); the buffer does not change any more; and the
\* channel of such a consumer that keeps receiving is closed in the end.
C3_LateConsumerReceivesBuffer ==
    /\ [](\A s \in Subs :
            (sub[s].attachSealed /\ Drained(s)) =>
                /\ received[s] = buffer
                /\ (buffer = <<>> /\ ~sub[s].follow) => sub[s].closedBy = "attach")
    /\ [][Sealed => Sealed' /\ buffer' = buffer]_vars
    /\ \A s \in Subs \ {SlowSub} :
          (sub[s].attachSealed /\ sub[s].st = "open") ~> (sub[s].st = "closed")

\* C3 witness: the job is Completed, and a consumer that attached after
\* infeed closed its channel has been closed at the end of a buffer of
\* several records, all of which it received.
C3_Witness ==
    /\ pcIn = "reaped"
    /\ \E s \in Subs \ {SlowSub} :
          /\ sub[s].attachSealed
          /\ sub[s].closedBy = "end"
          /\ Len(received[s]) = MaxRecords

\* C4: a follower that keeps receiving receives every record of the buffer,
\* the ones appended after it attached and after it slept included, unless
\* it is cancelled or the job is cleaned up.
C4_FollowerReceivesEveryRecord ==
    \A s \in Subs \ {SlowSub} : \A k \in 1 .. MaxRecords :
        (sub[s].st = "open" /\ sub[s].follow /\ Len(buffer) >= k)
        ~> (\/ Len(received[s]) >= k /\ IsPrefix(received[s], buffer)
            \/ cancelled[s]
            \/ doneClosed)

\* C4 witness: a follower has received two records and sleeps at the end of
\* the buffer while infeed runs.
C4_Witness ==
    \E k \in 1 .. Len(outfeeds) :
        LET s == outfeeds[k].sub
        IN  /\ s # SlowSub
            /\ outfeeds[k].follow
            /\ Len(received[s]) = 2
            /\ CaseAt(cases, (k - 1) * 2 + outOffset).Chan = disabled
            /\ ~Sealed

\* C7: a consumer that keeps receiving and has a Log to receive receives it,
\* unless it is cancelled or the job is cleaned up first, even if another
\* consumer never receives the Log the feeder has for it.
C7_SlowConsumerStarvesNoOther ==
    \A s \in Subs \ {SlowSub} : \A k \in 0 .. MaxRecords - 1 :
        (Armed(s) /\ Len(received[s]) = k)
        ~> (Len(received[s]) > k \/ cancelled[s] \/ doneClosed)

\* C7 witness: the slow consumer attached first and has received nothing of
\* a buffer that another consumer has received whole.
C7_Witness ==
    /\ Armed(SlowSub)
    /\ received[SlowSub] = <<>>
    /\ Len(outfeeds) > 0 /\ outfeeds[1].sub = SlowSub
    /\ \E s \in Subs \ {SlowSub} :
          Len(received[s]) = MaxRecords /\ sub[s].st = "open"

\* ------------------------------------------------------------------------
\* Properties of infeed
\* ------------------------------------------------------------------------

\* The lines of the records of buf, one after the other.
RECURSIVE ConcatLines(_)
ConcatLines(buf) ==
    IF buf = <<>> THEN <<>>
    ELSE ConcatLines(SubSeq(buf, 1, Len(buf) - 1)) \o buf[Len(buf)].Line

\* C8 as stated: no record of the buffer has a line of more than
\* maxLineSize bytes, and an output of 1100 bytes without a newline makes
\* three records of 512, 512 and 76 bytes.
C8_LinesAtMostMaxLineSize ==
    /\ \A i \in 1 .. Len(buffer) : Len(buffer[i].Line) <= maxLineSize
    /\ (Sealed /\ Len(output) = 1100 /\ IndexByte(output, NL) = 0)
          => [i \in 1 .. Len(buffer) |-> Len(buffer[i].Line)] = <<512, 512, 76>>

\* C9: the lines of the buffer, then the line infeed is sending, then what
\* is still unread, are the output of the job byte for byte; once infeed
\* has closed its channel the lines of the buffer are the whole output; and
\* no record has an empty line.
C9_BufferReproducesOutput ==
    /\ ConcatLines(buffer) \o pending.Line \o r.data = output
    /\ Sealed => ConcatLines(buffer) = output
    /\ \A i \in 1 .. Len(buffer) : Len(buffer[i].Line) > 0

\* C9 witness: infeed has closed its channel after an error of the read
\* other than EOF; the buffer has several records, the last one without a
\* newline, and bytes 0 and above 127 among them.
C9_Witness ==
    /\ Sealed
    /\ r.err = "EIO"
    /\ Len(buffer) >= 2
    /\ buffer[Len(buffer)].Line[Len(buffer[Len(buffer)].Line)] # NL
    /\ \E i \in 1 .. Len(output) : output[i] = 0
    /\ \E i \in 1 .. Len(output) : output[i] > 127

\* ------------------------------------------------------------------------
\* Tracker.allocateID
\* ------------------------------------------------------------------------

\* '/', os.PathSeparator.
Slash == 47

\* '-'
Dash == 45

\* A uint32 is its eight hexadecimal digits, the most significant first (the
\* values of TLC end below 2^32).
Uint32s == [1 .. 8 -> 0 .. 15]

\* The uint32 of the eight digits a .. h.
U32(a, b, c, d, e, f, g, h) == <<a, b, c, d, e, f, g, h>>

\* u >= 16
AtLeast16(u) == \E i \in 1 .. 7 : u[i] # 0

\* u >>= 4
Shr4(u) == <<0>> \o SubSeq(u, 1, 7)

\* digits[u & 15] of "0123456789abcdefghijklmnopqrstuvwxyz"
Digit(u) == IF u[8] < 10 THEN 48 + u[8] ELSE 87 + u[8]

\* strconv.FormatUint(u, 16), formatBits for a base that is a power of two:
\* a digit for the low four bits while u >= 16, then the digit of what is
\* left.
RECURSIVE FormatUint16(_)
FormatUint16(u) ==
    IF AtLeast16(u) THEN FormatUint16(Shr4(u)) \o <<Digit(u)>> ELSE <<Digit(u)>>

\* The trailing slashes of path removed.
RECURSIVE StripSlashes(_)
StripSlashes(path) ==
    IF Len(path) > 0 /\ path[Len(path)] = Slash
    THEN StripSlashes(SubSeq(path, 1, Len(path) - 1))
    ELSE path

\* filepath.Base(path): "." for the empty path, the last element of the path
\* without its trailing slashes, "/" for a path of slashes only.
Base(path) ==
    IF path = <<>> THEN <<46>>
    ELSE LET p == StripSlashes(path)
             i == IF \E k \in 1 .. Len(p) : p[k] = Slash
                  THEN CHOOSE k \in 1 .. Len(p) :
                           p[k] = Slash /\ \A m \in k + 1 .. Len(p) : p[m] # Slash
                  ELSE 0
             e == SubSeq(p, i + 1, Len(p))
         IN  IF e = <<>> THEN <<Slash>> ELSE e

\* The id that allocateID tries for the value rnd of rand.Uint32().
TryID(command, rnd) == Base(command) \o <<Dash>> \o FormatUint16(rnd)

\* _, ok := t.jobs[id]; !ok
FreeIDAlways(js, id) == TRUE

FreeID(js, id) == id \notin DOMAIN js

\* The ids that allocateID can return: it draws values of rand.Uint32() from
\* rands until the id is not a key of t.jobs.
allocateID(js, command, rands) ==
    { id \in { TryID(command, rnd) : rnd \in rands } : FreeID(js, id) }

\* ------------------------------------------------------------------------
\* Job
\* ------------------------------------------------------------------------

\* The callers: AddUserToContext(ctx, user), or a context without a user.
Users == {"alice", "bob", "carol"}
NoUser == "<no user>"
Callers == Users \cup {NoUser}

\* The callers of Tracker.Start.
Starters == {"alice", "bob", NoUser}

\* Tracker.admins, as NewTracker was given them.
admins == {"carol"}

\* How ExecPart1 can end: "nofork" is an error of the pipes or of
\* cmd.Start(); "nocgroup" is a child that reports an error on stderr before
\* newCgroup has made its directory; "failed" is a child that reports an
\* error after it; "ok" is a child that execs the command.
Launches == {"nofork", "nocgroup", "failed", "ok"}

\* The uint32 of the int x, for -2^31 <= x < 2^31: the digits of x, or of
\* 2^32 + x for a negative x, which are those of -x - 1 each taken from 15.
Uint32FromInt(x) ==
    LET digits(n) == [i \in 1 .. 8 |-> (n \div (16 ^ (8 - i))) % 16]
    IN  IF x >= 0 THEN digits(x) ELSE [i \in 1 .. 8 |-> 15 - digits(-x - 1)[i]]

\* A reaper that records the uint32 of the exit code as it is.
AndNothing(u) == u

\* u & 0xFF
And0xFF(u) == [i \in 1 .. 8 |-> IF i >= 7 THEN u[i] ELSE 0]

\* The os.ProcessState of a child that has not ended, that called exit with
\* a status, and that a signal ended.
NoStatus == [kind |-> "none"]
Exited(status) == [kind |-> "exited", status |-> status]
Signaled(sig) == [kind |-> "signaled", sig |-> sig]

\* exec.ExitError.ExitCode(): the exit status of a child that exited, -1
\* for one that a signal ended.
ExitCodeOf(ws) == IF ws.kind = "exited" THEN ws.status ELSE -1

\* The error of cmd.Wait(): nil for a child that exited with status 0, an
\* *exec.ExitError otherwise.
WaitError(ws) == IF ws.kind = "exited" /\ ws.status = 0 THEN "nil" ELSE "ExitError"

\* NewJob(id, spec, argMaker) and Job.Start(owner) at time now, the child
\* ending ExecPart1 as launch and having n lines to write.  signals, alive,
\* out and cgroup are the child and its cgroup directory; infeed and feeder
\* are the goroutines of Job.Start; done is close(j.done); rmdirs counts the
\* calls of cleanupCgroup and cleanups those of Cleanup; lateAttach tells
\* that attachOutfeed was called after Cleanup.
StartedJob(id, owner, now, launch, n) ==
    [ ID |-> id, Owner |-> owner, State |-> "Running", StartTime |-> now,
      signals |-> <<>>,
      alive |-> launch = "ok",
      out |-> IF launch = "ok" THEN n ELSE 0,
      cgroup |-> CASE launch = "ok" -> "created"
                   [] launch = "failed" -> "removed"
                   [] OTHER -> "none",
      rmdirs |-> IF launch \in {"nocgroup", "failed"} THEN 1 ELSE 0,
      infeed |-> IF launch = "ok" THEN "read" ELSE "none",
      feeder |-> IF launch = "ok" THEN "running" ELSE "none",
      done |-> FALSE, cleanups |-> 0, lateAttach |-> FALSE,
      wstatus |-> NoStatus, ExitCode |-> Uint32FromInt(0), ExitError |-> "nil" ]

\* Job.Description(): JobDescription{ID, Spec, Status}.
Description(j) ==
    [ID |-> j.ID, Owner |-> j.Owner, State |-> j.State, StartTime |-> j.StartTime]

\* The signal sig is sent to the child: signals keeps the order in which the
\* kinds of signal were first sent.
Signal(sigs, sig) ==
    IF \E i \in 1 .. Len(sigs) : sigs[i] = sig THEN sigs ELSE Append(sigs, sig)

\* ------------------------------------------------------------------------
\* The goroutines and the child of a Job of the heap
\* ------------------------------------------------------------------------

CallsUnchanged == UNCHANGED <<jobs, waiting, resp>>

FeederVarsUnchanged ==
    UNCHANGED <<r, pcIn, pending, lastErr, output, feederVars, doneClosed, subVars, proc>>

\* The child exits by itself with a status: what it has written stays in
\* the pipe.
ChildExits(k, status) ==
    /\ resp = NoResp
    /\ heap[k].alive
    /\ heap' = [heap EXCEPT ![k].alive = FALSE, ![k].wstatus = Exited(status)]
    /\ CallsUnchanged /\ FeederVarsUnchanged /\ UNCHANGED clock

\* The child exits by itself with the status 0.
ChildExit(k) == ChildExits(k, 0)

\* infeed reads a line and blocks in out <- Log{...}.
JobInfeedRead(k) ==
    /\ resp = NoResp
    /\ heap[k].infeed = "read"
    /\ heap[k].out > 0
    /\ heap' = [heap EXCEPT ![k].infeed = "send", ![k].out = @ - 1]
    /\ CallsUnchanged /\ FeederVarsUnchanged /\ UNCHANGED clock

\* infeed reads EOF once the child is gone and the pipe is empty, closes out
\* and returns.
JobInfeedEOF(k) ==
    /\ resp = NoResp
    /\ heap[k].infeed = "read"
    /\ heap[k].out = 0
    /\ ~heap[k].alive
    /\ heap' = [heap EXCEPT ![k].infeed = "closed"]
    /\ CallsUnchanged /\ FeederVarsUnchanged /\ UNCHANGED clock

\* The feeder loop receives the Log of infeed.
JobFeederRecv(k) ==
    /\ resp = NoResp
    /\ heap[k].infeed = "send"
    /\ heap[k].feeder = "running"
    /\ heap' = [heap EXCEPT ![k].infeed = "read"]
    /\ CallsUnchanged /\ FeederVarsUnchanged /\ UNCHANGED clock

\* The feeder loop selects the closed done channel and returns.
JobFeederDone(k) ==
    /\ resp = NoResp
    /\ heap[k].done
    /\ heap[k].feeder = "running"
    /\ heap' = [heap EXCEPT ![k].feeder = "exited"]
    /\ CallsUnchanged /\ FeederVarsUnchanged /\ UNCHANGED clock

\* The goroutine of Job.Start after infeed has returned: cmd.Wait(), the
\* state Completed, close(j.reaped) and cleanupCgroup().
JobReap(k) ==
    /\ resp = NoResp
    /\ heap[k].infeed = "closed"
    /\ heap[k].State = "Running"
    /\ heap' = [heap EXCEPT ![k].ExitCode =
                                IF WaitError(heap[k].wstatus) = "ExitError"
                                THEN And0xFF(Uint32FromInt(ExitCodeOf(heap[k].wstatus)))
                                ELSE @,
                            ![k].ExitError = WaitError(heap[k].wstatus),
                            ![k].State = "Completed",
                            ![k].cgroup = "removed",
                            ![k].rmdirs = @ + 1]
    /\ CallsUnchanged /\ FeederVarsUnchanged /\ UNCHANGED clock

\* ------------------------------------------------------------------------
\* Tracker
\* ------------------------------------------------------------------------

\* The commands of the tracker specification: none, "a" and "/a".
Commands == {<<>>, <<97>>, <<Slash, 97>>}

\* The values of rand.Uint32() of the tracker specification.
Rands == {U32(0, 0, 0, 0, 0, 0, 0, 0), U32(0, 0, 0, 0, 0, 0, 0, 1)}

\* The ids that a caller may ask for.
Ids == { TryID(c, rnd) : c \in Commands \ {<<>>}, rnd \in Rands }

\* What a call returns: val is the id of Start, the JobDescription of Get,
\* the []JobDescription of List, the channel of GetLogChannel; sorted is the
\* ListResponse of the service; how tells which case the select of Job.Stop
\* took.
Resp(op, user, id, flags, err, val) ==
    [op |-> op, user |-> user, id |-> id, flags |-> flags, err |-> err,
     val |-> val, sorted |-> <<>>, how |-> "none"]

NoFlags == [cleanup |-> FALSE, completed |-> FALSE, all |-> FALSE]

\* Tracker.mu is free and the caller of the last call has its response.
Unlocked == waiting = NoCall /\ resp = NoResp

\* jd.Status.Owner != user && !t.admins[user] does not hold.
AuthorizedAnyone(user, jd) == TRUE

Authorized(user, jd) == jd.Owner = user \/ user \in admins

\* t.jobs[id] = j
Insert(js, id, k) == [x \in DOMAIN js \cup {id} |-> IF x = id THEN k ELSE js[x]]

\* delete(t.jobs, id)
DeleteNot(js, id) == js

DeleteJob(js, id) == [x \in DOMAIN js \ {id} |-> js[x]]

\* Tracker.Start after j.Start(user): t.jobs[id] = j unless err != nil.
TrackAlways(js, id, k, launch) == Insert(js, id, k)

Track(js, id, k, launch) == IF launch = "ok" THEN Insert(js, id, k) ELSE js

\* Tracker.Start(ctx, spec) at time now.
Start(user, command, launch, n, rands, now) ==
    /\ Unlocked
    /\ clock' = IF user = NoUser \/ command = <<>> THEN clock ELSE now
    /\ IF user = NoUser
       THEN /\ resp' = Resp("Start", user, <<>>, NoFlags, "ErrUnauthorized", <<>>)
            /\ UNCHANGED <<jobs, heap>>
       ELSE IF command = <<>>
       THEN /\ resp' = Resp("Start", user, <<>>, NoFlags, "ErrNoCommand", <<>>)
            /\ UNCHANGED <<jobs, heap>>
       ELSE /\ Len(heap) < MaxJobs
            /\ \E id \in allocateID(jobs, command, rands) :
                  /\ heap' = Append(heap, StartedJob(id, user, now, launch, n))
                  /\ jobs' = Track(jobs, id, Len(heap) + 1, launch)
                  /\ resp' = IF launch = "ok"
                             THEN Resp("Start", user, <<>>, NoFlags, "nil", id)
                             ELSE Resp("Start", user, <<>>, NoFlags, "ErrNotStarted", <<>>)
    /\ FeederVarsUnchanged /\ UNCHANGED waiting

\* The checks that Stop, Get and GetLogChannel begin with.
CheckCall(user, id) ==
    IF user = NoUser THEN "ErrUnauthorized"
    ELSE IF id \notin DOMAIN jobs THEN "ErrUnknown"
    ELSE IF ~Authorized(user, Description(heap[jobs[id]])) THEN "ErrUnauthorized"
    ELSE "nil"

\* Tracker.Stop from if cleanup { ... } to its return, for the Job k.
FinishStop(user, id, cleanup, k, hp, how) ==
    /\ heap' = IF cleanup THEN [hp EXCEPT ![k].done = TRUE, ![k].cleanups = @ + 1] ELSE hp
    /\ jobs' = IF cleanup THEN DeleteJob(jobs, id) ELSE jobs
    /\ resp' = [Resp("Stop", user, id, [NoFlags EXCEPT !.cleanup = cleanup], "nil", <<>>)
                   EXCEPT !.how = how]
    /\ waiting' = NoCall

\* Tracker.Stop(ctx, id, cleanup) up to the select of Job.Stop: a Running
\* job is sent SIGKILL, and what the child has not written yet is lost.
Stop(user, id, cleanup) ==
    /\ Unlocked
    /\ LET err == CheckCall(user, id) IN
       IF err # "nil"
       THEN /\ resp' = Resp("Stop", user, id, [NoFlags EXCEPT !.cleanup = cleanup], err, <<>>)
            /\ UNCHANGED <<jobs, heap, waiting>>
       ELSE LET k == jobs[id] IN
            IF heap[k].State = "Running"
            THEN /\ \E left \in 0 .. heap[k].out :
                      heap' = [heap EXCEPT ![k].signals = Signal(@, "SIGKILL"),
                                           ![k].alive = FALSE,
                                           ![k].wstatus = IF heap[k].alive
                                                          THEN Signaled("SIGKILL") ELSE @,
                                           ![k].out = left]
                 /\ waiting' = [op |-> "Stop", user |-> user, id |-> id,
                                cleanup |-> cleanup, job |-> k]
                 /\ UNCHANGED <<jobs, resp>>
            ELSE FinishStop(user, id, cleanup, k, heap, "completed")
    /\ FeederVarsUnchanged /\ UNCHANGED clock

\* The select of Job.Stop takes case <-reaped.
StopReaped ==
    /\ waiting.op = "Stop"
    /\ heap[waiting.job].State = "Completed"
    /\ FinishStop(waiting.user, waiting.id, waiting.cleanup, waiting.job, heap, "reaped")
    /\ FeederVarsUnchanged /\ UNCHANGED clock

\* The select of Job.Stop takes case <-ctx.Done().
StopCancelled ==
    /\ waiting.op = "Stop"
    /\ FinishStop(waiting.user, waiting.id, waiting.cleanup, waiting.job, heap, "cancelled")
    /\ FeederVarsUnchanged /\ UNCHANGED clock

\* Tracker.Get(ctx, id)
Get(user, id) ==
    /\ Unlocked
    /\ LET err == CheckCall(user, id) IN
       resp' = Resp("Get", user, id, NoFlags, err,
                    IF err = "nil" THEN Description(heap[jobs[id]]) ELSE <<>>)
    /\ UNCHANGED <<jobs, heap, waiting>>
    /\ FeederVarsUnchanged /\ UNCHANGED clock

\* Tracker.GetLogChannel(id, follow, ctx): the channel of attachOutfeed,
\* whose send f.control <- feed the feeder receives while its loop runs; the
\* send never ends, under Tracker.mu, once Start of the feeder has returned.
GetLogChannel(user, id, follow) ==
    /\ Unlocked
    /\ LET err == CheckCall(user, id) IN
       IF err # "nil"
       THEN /\ resp' = Resp("GetLogChannel", user, id, NoFlags, err, <<>>)
            /\ UNCHANGED <<heap, waiting>>
       ELSE LET k == jobs[id] IN
            /\ heap' = [heap EXCEPT ![k].lateAttach = @ \/ heap[k].done]
            /\ IF heap[k].feeder = "running"
               THEN /\ resp' = Resp("GetLogChannel", user, id, NoFlags, err, <<"chan", k>>)
                    /\ UNCHANGED waiting
               ELSE /\ waiting' = [op |-> "GetLogChannel", user |-> user, id |-> id,
                                   cleanup |-> FALSE, job |-> k]
                    /\ UNCHANGED resp
    /\ UNCHANGED jobs
    /\ FeederVarsUnchanged /\ UNCHANGED clock

\* The orders in which range can iterate over the keys of the map js.
Iterations(js) ==
    { f \in [1 .. Cardinality(DOMAIN js) -> DOMAIN js] :
        \A i, j \in DOMAIN f : i # j => f[i] # f[j] }

\* The test of the loop of Tracker.List: the job is appended unless one of
\* its two ifs continues.
ListedToAll(user, jd, completed, all) ==
    /\ ~(user # jd.Owner /\ ~all)
    /\ ~(~completed /\ jd.State = "Completed")

Listed(user, jd, completed, all) ==
    /\ ~(user # jd.Owner /\ ~(all /\ user \in admins))
    /\ ~(~completed /\ jd.State = "Completed")

\* Tracker.List(ctx, completed, all) when range iterates in the order it.
TrackerList(user, completed, all, it) ==
    IF user = NoUser THEN <<>>
    ELSE LET jds == [i \in DOMAIN it |-> Description(heap[jobs[it[i]]])]
             Keep(jd) == Listed(user, jd, completed, all)
         IN  SelectSeq(jds, Keep)

\* bytes.Compare(a, b): -1, 0 or 1 as a is before, equal to or after b in
\* the byte-wise lexicographic order.
RECURSIVE Compare(_, _)
Compare(a, b) ==
    IF a = <<>> /\ b = <<>> THEN 0
    ELSE IF a = <<>> THEN -1
    ELSE IF b = <<>> THEN 1
    ELSE IF a[1] < b[1] THEN -1
    ELSE IF a[1] > b[1] THEN 1
    ELSE Compare(Tail(a), Tail(b))

\* The less function that JobExecutor.List gives to sort.Slice.
lessByStartTime(a, b) == a.StartTime < b.StartTime

less(a, b) ==
    IF a.StartTime # b.StartTime
    THEN a.StartTime < b.StartTime
    ELSE Compare(a.ID, b.ID) < 0

\* sort.Slice on a short slice is an insertion sort: each element moves
\* down while it is less than the one before it.
RECURSIVE InsertSorted(_, _)
InsertSorted(sorted, x) ==
    IF sorted # <<>> /\ less(x, sorted[Len(sorted)])
    THEN Append(InsertSorted(SubSeq(sorted, 1, Len(sorted) - 1), x), sorted[Len(sorted)])
    ELSE Append(sorted, x)

RECURSIVE SortSlice(_)
SortSlice(s) ==
    IF s = <<>> THEN <<>>
    ELSE InsertSorted(SortSlice(SubSeq(s, 1, Len(s) - 1)), s[Len(s)])

\* JobExecutor.List: the JobStatus of every JobDescription of Tracker.List,
\* sorted.
List(user, completed, all) ==
    /\ Unlocked
    /\ \E it \in Iterations(jobs) :
          LET jds == TrackerList(user, completed, all, it) IN
          resp' = [Resp("List", user, <<>>,
                        [NoFlags EXCEPT !.completed = completed, !.all = all],
                        "nil", jds)
                      EXCEPT !.sorted = SortSlice(jds)]
    /\ UNCHANGED <<jobs, heap, waiting>>
    /\ FeederVarsUnchanged /\ UNCHANGED clock

\* The caller takes what its call returned.
Return ==
    /\ resp # NoResp
    /\ resp' = NoResp
    /\ UNCHANGED <<jobs, heap, waiting>>
    /\ FeederVarsUnchanged /\ UNCHANGED clock

\* The goroutines and the child of the Job k when the child writes nothing.
JobQuiet(k) ==
    \/ ChildExit(k)
    \/ JobInfeedEOF(k)
    \/ JobFeederDone(k)
    \/ JobReap(k)

\* The goroutines and the child of the Job k.
JobNext(k) ==
    \/ JobQuiet(k)
    \/ JobInfeedRead(k)
    \/ JobFeederRecv(k)

\* The readings of time.Now() after the reading clock.
Now == clock .. Min(clock + 1, MaxTime)

\* The calls of the Tracker by every caller, on children that write nothing.
TrackerNext ==
    \/ \E user \in Starters, command \in Commands, launch \in {"ok", "failed"}, now \in Now :
          Start(user, command, launch, 0, Rands, now)
    \/ \E user \in Callers, id \in Ids, cleanup \in BOOLEAN : Stop(user, id, cleanup)
    \/ StopReaped
    \/ StopCancelled
    \/ \E user \in Callers, id \in Ids : Get(user, id)
    \/ \E user \in Callers, id \in Ids, follow \in BOOLEAN : GetLogChannel(user, id, follow)
    \/ \E user \in Callers, completed \in BOOLEAN, all \in BOOLEAN :
          List(user, completed, all)
    \/ Return
    \/ \E k \in 1 .. Len(heap) : JobQuiet(k)

\* The tracker specification: the fan-out of its Jobs is the feeder
\* specification's, and stands still here.
TrackerInit ==
    /\ InitInfeed({Reader(<<>>, "EOF")}, 0)
    /\ InitFeeder
    /\ InitTracker

SpecTracker == TrackerInit /\ [][TrackerNext]_vars

\* Commands that name a file: "a", "/a", "a/b", "/a/b", "//b", "a-b", "./a"
\* and "/a.b/-".
IDCommands ==
    { <<97>>, <<Slash, 97>>, <<97, Slash, 98>>, <<Slash, 97, Slash, 98>>,
      <<Slash, Slash, 98>>, <<97, Dash, 98>>, <<46, Slash, 97>>,
      <<Slash, 97, 46, 98, Slash, Dash>> }

\* Values of rand.Uint32() from 0 to 2^32 - 1, with and without leading
\* zero digits.
IDRands ==
    { U32(0, 0, 0, 0, 0, 0, 0, 0), U32(0, 0, 0, 0, 0, 0, 0, 1),
      U32(0, 0, 0, 0, 0, 0, 0, 15), U32(0, 0, 0, 0, 0, 0, 1, 0),
      U32(0, 0, 0, 0, 0, 10, 11, 12), U32(0, 0, 0, 1, 0, 0, 0, 0),
      U32(0, 15, 15, 15, 15, 15, 15, 15), U32(1, 0, 0, 0, 0, 0, 0, 0),
      U32(7, 15, 15, 15, 15, 15, 15, 15), U32(8, 0, 0, 0, 0, 0, 0, 0),
      U32(13, 14, 10, 13, 11, 14, 14, 15), U32(15, 15, 15, 15, 15, 15, 15, 15) }

\* Tracker.Start of commands that start, for these values of rand.Uint32().
NextID ==
    \/ \E command \in IDCommands, rnd \in IDRands :
          Start("alice", command, "ok", 0, {rnd}, clock)
    \/ Return

SpecID == TrackerInit /\ [][NextID]_vars

\* ------------------------------------------------------------------------
\* Properties of the Tracker
\* ------------------------------------------------------------------------

\* c is one of 0-9 or a-f.
IsLowerHex(c) == (48 <= c /\ c <= 57) \/ (97 <= c /\ c <= 102)

\* id matches ^[^/]+-[0-9a-f]{8}$
MatchesIDPattern(id) ==
    /\ Len(id) >= 10
    /\ \A i \in Len(id) - 7 .. Len(id) : IsLowerHex(id[i])
    /\ id[Len(id) - 8] = Dash
    /\ \A i \in 1 .. Len(id) - 9 : id[i] # Slash

\* C11: the id that a successful Tracker.Start returns is the basename of
\* the command, a dash and exactly eight lowercase hexadecimal digits, for
\* every value of the random suffix.
C11_IdHasEightHexDigits ==
    (resp.op = "Start" /\ resp.err = "nil") => MatchesIDPattern(resp.val)

\* The step is the return of a call: the caller had taken the last response.
Returns(op) == resp = NoResp /\ resp'.op = op

\* C12: the tracked jobs have pairwise distinct ids, each under its own id,
\* and a successful Tracker.Start returns an id that was not a key of the
\* tracker and leaves every job that was tracked under its id.
C12_IdsAreUnique ==
    /\ [](\A id \in DOMAIN jobs : heap[jobs[id]].ID = id)
    /\ [](\A a, b \in DOMAIN jobs : jobs[a] = jobs[b] => a = b)
    /\ [][(Returns("Start") /\ resp'.err = "nil") =>
             /\ resp'.val \notin DOMAIN jobs
             /\ resp'.val \in DOMAIN jobs'
             /\ \A id \in DOMAIN jobs : id \in DOMAIN jobs' /\ jobs'[id] = jobs[id]]_vars

\* Two jobs of commands with the same basename are tracked, the second one
\* just started.
C12_Witness ==
    /\ resp.op = "Start" /\ resp.err = "nil"
    /\ \E id \in DOMAIN jobs :
          /\ id # resp.val
          /\ SubSeq(id, 1, Len(id) - 1) = SubSeq(resp.val, 1, Len(resp.val) - 1)

\* C13: when Tracker.Stop without cleanup has returned without error, the
\* job is Completed, whichever case of the select of Job.Stop was taken.
C13_StoppedJobIsCompleted ==
    (resp.op = "Stop" /\ resp.err = "nil" /\ ~resp.flags.cleanup) =>
        heap[jobs[resp.id]].State = "Completed"

\* C14, as stated: once Tracker.Stop with cleanup has removed a job, its id
\* is never tracked again.
C14_CleanedIdIsNeverTracked ==
    \A k \in 1 .. Len(heap) : heap[k].done => heap[k].ID \notin DOMAIN jobs

\* C14, amended: when Tracker.Stop with cleanup returns without error the id
\* is not tracked; an id comes to be tracked only by the Tracker.Start that
\* returns it; and while an id is not tracked, Get, Stop and GetLogChannel
\* of it by a caller with an identity fail with ErrUnknown and List does not
\* contain it.
C14_CleanedIdIsUnknownUntilReused ==
    /\ [][(Returns("Stop") /\ resp'.err = "nil" /\ resp'.flags.cleanup) =>
             resp'.id \in DOMAIN jobs /\ resp'.id \notin DOMAIN jobs']_vars
    /\ [][\A id \in DOMAIN jobs' \ DOMAIN jobs :
             Returns("Start") /\ resp'.err = "nil" /\ resp'.val = id]_vars
    /\ [][\A op \in {"Get", "Stop", "GetLogChannel"} :
             (Returns(op) /\ resp'.user # NoUser /\ resp'.id \notin DOMAIN jobs) =>
                 resp'.err = "ErrUnknown" /\ resp'.val = <<>>]_vars
    /\ [](resp.op = "List" =>
             \A i \in 1 .. Len(resp.sorted) : resp.sorted[i].ID \in DOMAIN jobs)

\* A job was removed by Stop with cleanup, and a Get of its id has failed
\* with ErrUnknown.
C14_Witness ==
    /\ resp.op = "Get" /\ resp.err = "ErrUnknown"
    /\ \E k \in 1 .. Len(heap) : heap[k].done /\ heap[k].ID = resp.id
    /\ resp.id \notin DOMAIN jobs

\* C15: a Stop, Get or GetLogChannel of a tracked job by a caller who is
\* neither its owner nor an admin fails with ErrUnauthorized, returns
\* nothing and changes neither the tracker nor the job; the owner and the
\* admins are not refused.
C15_AuthorizationIsEnforced ==
    [][\A op \in {"Get", "Stop", "GetLogChannel"} :
          (Returns(op) /\ resp'.id \in DOMAIN jobs) =>
              LET j == heap[jobs[resp'.id]] IN
              IF resp'.user = j.Owner \/ resp'.user \in admins
              THEN resp'.err = "nil"
              ELSE /\ resp'.err = "ErrUnauthorized"
                   /\ resp'.val = <<>>
                   /\ UNCHANGED <<jobs, heap, waiting>>]_vars

\* bob has been refused the Stop of a running job of alice.
C15_Witness ==
    /\ resp.op = "Stop" /\ resp.user = "bob" /\ resp.err = "ErrUnauthorized"
    /\ resp.id \in DOMAIN jobs
    /\ heap[jobs[resp.id]].Owner = "alice"
    /\ heap[jobs[resp.id]].State = "Running"
    /\ heap[jobs[resp.id]].alive

\* The elements of the sequence s.
Range(s) == { s[i] : i \in 1 .. Len(s) }

C17_ListIsSorted ==
    resp.op = "List" =>
        /\ Range(resp.sorted) = Range(resp.val)
        /\ Len(resp.sorted) = Len(resp.val)
        /\ \A i, j \in 1 .. Len(resp.sorted) :
              i < j =>
                  LET a == resp.sorted[i]
                      b == resp.sorted[j]
                  IN  \/ a.StartTime < b.StartTime
                      \/ a.StartTime = b.StartTime /\ Compare(a.ID, b.ID) < 0

\* Two jobs started at the same time were iterated in the other order than
\* that of their ids.
C17_Witness ==
    /\ resp.op = "List"
    /\ Len(resp.sorted) > 1
    /\ resp.sorted[1].StartTime = resp.sorted[Len(resp.sorted)].StartTime
    /\ resp.sorted # resp.val

\* C18: a Tracker.Start that returns an error returns no id and leaves the
\* tracked jobs as they were.
C18_FailedStartTracksNothing ==
    [][(Returns("Start") /\ resp'.err # "nil") =>
          /\ resp'.err \in {"ErrUnauthorized", "ErrNoCommand", "ErrNotStarted"}
          /\ resp'.val = <<>>
          /\ jobs' = jobs]_vars

\* A job is tracked, and the launch of another one has failed.
C18_Witness ==
    /\ resp.op = "Start" /\ resp.err = "ErrNotStarted"
    /\ DOMAIN jobs # {}
    /\ Len(heap) > Cardinality(DOMAIN jobs)

\* C19: the child is sent SIGKILL only after it has been sent SIGTERM.
C19_SigtermBeforeSigkill ==
    \A k \in 1 .. Len(heap) :
        \A i \in 1 .. Len(heap[k].signals) :
            heap[k].signals[i] = "SIGKILL" =>
                \E t \in 1 .. i - 1 : heap[k].signals[t] = "SIGTERM"

\* ------------------------------------------------------------------------
\* The cgroups of the Jobs
\* ------------------------------------------------------------------------

\* alice starts jobs of the command "a", whose launch ends in every way and
\* whose children write up to MaxOutput lines, and stops them.
CgroupNext ==
    \/ \E launch \in Launches, n \in 0 .. MaxOutput :
          Start("alice", <<97>>, launch, n, Rands, clock)
    \/ \E id \in Ids, cleanup \in BOOLEAN : Stop("alice", id, cleanup)
    \/ StopReaped
    \/ StopCancelled
    \/ Return
    \/ \E k \in 1 .. Len(heap) : JobNext(k)

\* The goroutines of every Job run, a select takes a case that stays ready,
\* and a caller takes what its call returns.  A goroutine waits here while a
\* caller holds a response, which no goroutine of the program does: it runs
\* when it can run again and again.  Nothing makes a child exit, a caller
\* call or a context be cancelled.
CgroupFairness ==
    /\ WF_vars(Return)
    /\ WF_vars(StopReaped)
    /\ \A k \in 1 .. MaxJobs :
          /\ SF_vars(IF k <= Len(heap) THEN JobInfeedRead(k) ELSE FALSE)
          /\ SF_vars(IF k <= Len(heap) THEN JobInfeedEOF(k) ELSE FALSE)
          /\ SF_vars(IF k <= Len(heap) THEN JobFeederRecv(k) ELSE FALSE)
          /\ SF_vars(IF k <= Len(heap) THEN JobFeederDone(k) ELSE FALSE)
          /\ SF_vars(IF k <= Len(heap) THEN JobReap(k) ELSE FALSE)

FairCgroup == TrackerInit /\ [][CgroupNext]_vars /\ CgroupFairness

\* C20: cleanupCgroup is called at most once for a Job, and a Job whose
\* child made its cgroup and is gone is on its way to cleanupCgroup: as long
\* as the cgroup is not removed, infeed or the goroutine that reaps the child
\* can take its next step (once the caller holds no response).
C20_CgroupRemovedExactlyOnce ==
    \A k \in 1 .. Len(heap) :
        /\ heap[k].rmdirs <= 1
        /\ (resp = NoResp /\ heap[k].cgroup = "created" /\ ~heap[k].alive) =>
              ENABLED (\/ JobInfeedRead(k)
                       \/ JobFeederRecv(k)
                       \/ JobInfeedEOF(k)
                       \/ JobReap(k))

\* ------------------------------------------------------------------------
\* Cancellation, shutdown and the end of infeed
\* ------------------------------------------------------------------------

\* The place of the feed of consumer s among the feeds fs, counted from 0
\* as in the code.
FeedIdx(fs, s) == (CHOOSE k \in 1 .. Len(fs) : fs[k].sub = s) - 1

\* The select cases of outfeed i: that of its channel and that of its done
\* channel, as Start finds them from i.
CasesOf(cs, i) == << CaseAt(cs, i * 2 + outOffset), CaseAt(cs, i * 2 + outOffset + 1) >>

\* The two select cases of outfeed i are those of the feed's own consumer:
\* a send on its channel (or the disabled case of a sleeper) and a receive
\* from its done channel.
OwnCases(cs, fs, i) ==
    /\ CasesOf(cs, i)[1].Dir = "send"
    /\ CasesOf(cs, i)[1].Chan \in {disabled, Chan("ch", fs[i + 1].sub)}
    /\ CasesOf(cs, i)[2].Dir = "recv"
    /\ CasesOf(cs, i)[2].Chan = Chan("cancel", fs[i + 1].sub)

\* C21: in the step in which the feeder handles the done signal of consumer
\* s, the channel of s is closed and its feed removed, and every other feed
\* stays as it was: same position, same follow flag, the same two select
\* cases (enabled or disabled, with the same Log to send), which are still
\* those of its own channel and done channel; its consumer's channel and
\* what it has received do not change; and there are two cases per feed.
C21_CancelLeavesOthersUnchanged ==
    [][\A s \in Subs : (HasFeed(s) /\ Closes(s, "cancel")) =>
          /\ \A k \in 1 .. Len(outfeeds') : outfeeds'[k].sub # s
          /\ Len(cases') = outOffset + 2 * Len(outfeeds')
          /\ \A t \in Subs \ {s} : HasFeed(t) =>
                /\ \E k \in 1 .. Len(outfeeds') : outfeeds'[k].sub = t
                /\ LET i == FeedIdx(outfeeds, t)
                       j == FeedIdx(outfeeds', t)
                   IN  /\ outfeeds'[j + 1] = outfeeds[i + 1]
                       /\ CasesOf(cases', j) = CasesOf(cases, i)
                       /\ OwnCases(cases', outfeeds', j)
                /\ sub'[t] = sub[t]
                /\ received'[t] = received[t]
      ]_vars

\* The first consumer's feed was removed on its cancellation while the
\* second, attached after it, has records yet to receive: its feed and
\* cases have moved to the first place and its case is enabled.
C21_Witness ==
    /\ ~exited
    /\ sub[1].closedBy = "cancel"
    /\ HasFeed(2) /\ FeedIdx(outfeeds, 2) = 0
    /\ Armed(2)
    /\ outfeeds[1].pos < Len(buffer)
    /\ Len(received[2]) = outfeeds[1].pos


\* C22: once the done channel of a consumer whose channel is open is closed
\* (the context of GetLogChannel is cancelled), the feeder closes the
\* consumer's channel in the end and, unless Start has returned, no longer
\* has its feed - whether the feed follows or not, whether it has records
\* to send or sleeps, and also for the consumer that never receives again.
C22_CancelledChannelIsClosed ==
    \A s \in Subs :
        (cancelled[s] /\ sub[s].st = "open")
            ~> (sub[s].st = "closed" /\ (exited \/ ~HasFeed(s)))

\* The feeder has closed, on its cancellation, the channel of the follower
\* that does not receive, which had yet to receive records of the buffer.
C22_Witness ==
    /\ ~exited
    /\ cancelled[SlowSub]
    /\ sub[SlowSub].follow
    /\ sub[SlowSub].closedBy = "cancel"
    /\ ~HasFeed(SlowSub)
    /\ Len(received[SlowSub]) < Len(buffer)


\* C23: in the step in which the feeder handles the closed done channel of
\* the job, the channel of every consumer whose feed it has is closed,
\* whatever the consumer has yet to receive, and Start returns; from then on
\* Start has returned for good, no consumer receives a Log, no channel is
\* closed and the feeder's buffer, feeds and cases do not change.
C23_ShutdownClosesEveryChannel ==
    /\ [][(~exited /\ exited') =>
             /\ doneClosed
             /\ \A s \in Subs : HasFeed(s) => Closes(s, "shutdown")
             /\ \A s \in Subs : sub'[s].st = "open" => ~HasFeed(s)
             /\ received' = received
         ]_vars
    /\ [][exited =>
             /\ exited'
             /\ received' = received
             /\ buffer' = buffer /\ outfeeds' = outfeeds /\ cases' = cases
             /\ \A s \in Subs : sub[s].st # "closed" => sub'[s].st # "closed"
         ]_vars

\* Start has returned and has closed on the way the channels of two
\* consumers, one of which had received nothing of a buffer that is not
\* empty.
C23_Witness ==
    /\ exited
    /\ \A s \in Subs : sub[s].closedBy = "shutdown"
    /\ \E s \in Subs : received[s] = <<>> /\ outfeeds[FeedIdx(outfeeds, s) + 1].pos < Len(buffer)


\* The feed of consumer s sleeps: the select case of its channel is
\* disabled.
Sleeps(s) ==
    /\ HasFeed(s)
    /\ CasesOf(cases, FeedIdx(outfeeds, s))[1].Chan = disabled

\* C29: in the step in which the feeder finds the channel of infeed closed,
\* the channel of every consumer whose feed sleeps is closed and the feed
\* removed, and every other feed stays, with its position, its two select
\* cases and its consumer's channel as they were; infeedClosed is set for
\* good and the case of infeed disabled. From then on the feeder has no
\* sleeping feed: each feed is before the end of the buffer with its case
\* enabled, and the step that sends a feed its last Log closes its channel.
C29_EndOfInfeedClosesSleepers ==
    /\ [][(~infeedClosed /\ infeedClosed') =>
             /\ ~InfeedEnabled'
             /\ \A s \in Subs : Sleeps(s) =>
                   /\ Closes(s, "sealed")
                   /\ \A k \in 1 .. Len(outfeeds') : outfeeds'[k].sub # s
             /\ \A s \in Subs : (HasFeed(s) /\ ~Sleeps(s)) =>
                   /\ \E k \in 1 .. Len(outfeeds') : outfeeds'[k].sub = s
                   /\ LET i == FeedIdx(outfeeds, s)
                          j == FeedIdx(outfeeds', s)
                      IN  /\ outfeeds'[j + 1] = outfeeds[i + 1]
                          /\ CasesOf(cases', j) = CasesOf(cases, i)
                   /\ sub'[s] = sub[s]
             /\ received' = received /\ buffer' = buffer
         ]_vars
    /\ [][infeedClosed =>
             /\ infeedClosed'
             /\ buffer' = buffer
             /\ \A s \in Subs :
                   (HasFeed(s) /\ ~exited) =>
                       /\ ~Sleeps(s)
                       /\ outfeeds[FeedIdx(outfeeds, s) + 1].pos < Len(buffer)
             /\ \A s \in Subs :
                   (HasFeed(s) /\ Len(received'[s]) > Len(received[s])
                        /\ outfeeds[FeedIdx(outfeeds, s) + 1].pos + 1 = Len(buffer))
                      => Closes(s, "end")
         ]_vars

\* The feeder found the channel of infeed closed while one follower slept
\* and another was behind: the first one's channel was closed then, and the
\* second one's after it had received the whole buffer.
C29_Witness ==
    /\ infeedClosed /\ ~exited
    /\ \E s, t \in Subs :
          /\ sub[s].follow /\ sub[s].closedBy = "sealed"
          /\ sub[t].follow /\ sub[t].closedBy = "end"
          /\ ~sub[t].attachSealed
          /\ received[t] = buffer /\ received[s] = buffer
          /\ buffer # <<>>


\* ------------------------------------------------------------------------
\* The status of the job after the end of its output
\* ------------------------------------------------------------------------

\* j.Status.State of the started job of the feeder specification: Running
\* until the goroutine of Job.Start, back from cmd.Wait, sets it together
\* with ExitCode and ExitError.
State == IF pcIn = "reaped" THEN "Completed" ELSE "Running"

\* C24: when the channel of a follower has been closed because the output
\* of the job ended (in addOutfeed, in removeSleepers or at the end of the
\* buffer once infeed has closed its channel), the state of the job is
\* Completed, so that the exit code and exit error read then are final.
C24_CompletedWhenFollowStreamEnds ==
    \A s \in Subs :
        (sub[s].follow /\ sub[s].st = "closed"
             /\ sub[s].closedBy \in {"attach", "sealed", "end"})
           => State = "Completed"


\* ------------------------------------------------------------------------
\* The launch of a job
\* ------------------------------------------------------------------------

\* ExecPart1 of the Job at heap[k] returned an error: Job.Start returned it
\* before it made the goroutines of infeed and of the feeder.
LaunchFailed(k) == heap[k].infeed = "none" /\ heap[k].feeder = "none"

\* C25: a Job whose launch failed in Job.Start is left in the state
\* PreStart.
C25_FailedLaunchLeavesPreStart ==
    \A k \in 1 .. Len(heap) : LaunchFailed(k) => heap[k].State = "PreStart"


\* ------------------------------------------------------------------------
\* ExecPart1 in the parent and ExecPart2 in the child
\* ------------------------------------------------------------------------

\* The files of the limits that execPart2 writes, in the order of its
\* writes: r.MaxProcesses, r.Memory, r.CPU and the entries of r.IO.
LimitFiles == <<"pids.max", "memory.max", "cpu.max", "io.max">>

\* The system calls of ExecPart2 and execPart2 for a JobSpec with the
\* limits of the set limits and, when root, with a Root, in their order.
Steps(root, limits) ==
    <<"dup", "dup2", "mkdir", "cgroup.procs">>
        \o SelectSeq(LimitFiles, LAMBDA f : f \in limits)
        \o <<"sethostname">>
        \o (IF root THEN <<"chroot">> ELSE <<>>)
        \o <<"chdir", "mount", "exec">>

\* An ExecPart2 that writes nothing when a step fails.
NoDiag(step) == <<>>

\* The bytes that ExecPart2 writes to its stderr when step fails: the
\* message of the error, which is not empty ("could not dup stderr: ...",
\* "could not set pids.max: ...", "could not exec ...: ...").
Diag(step) == << "could not " \o step >>

\* What CmdRunContainer.Run returns after ExecPart2.
RunContainer == "nil"

\* The exit status of main when the Run of its command returned err:
\* kctx.FatalIfErrorf(err) exits with 1 unless err is nil.
ExitStatus(err) == IF err = "nil" THEN 0 ELSE 1

\* Numbers that may lie beyond the values of TLC are sequences of
\* hexadecimal digits, the most significant first.  The digits of n > 0;
\* none for 0.
RECURSIVE DigitsOf(_)
DigitsOf(n) == IF n = 0 THEN <<>> ELSE DigitsOf(n \div 16) \o <<n % 16>>

\* The digits of u * m + carry, for a small m.
RECURSIVE MulDigits(_, _, _)
MulDigits(u, m, carry) ==
    IF u = <<>>
    THEN DigitsOf(carry)
    ELSE LET p == u[Len(u)] * m + carry
         IN  MulDigits(SubSeq(u, 1, Len(u) - 1), m, p \div 16) \o <<p % 16>>

\* A product that is not cut to 32 bits.
MulExact(u, m) == MulDigits(u, m, 0)

\* u * m of two uint32: the low 32 bits of the product.
Mul32(u, m) ==
    LET p == MulDigits(u, m, 0) IN SubSeq(p, Len(p) - 7, Len(p))

\* The quotient and the remainder of the division by 10 of the number whose
\* digits are those of rem followed by u.
RECURSIVE DivMod10(_, _)
DivMod10(u, rem) ==
    IF u = <<>>
    THEN [q |-> <<>>, r |-> rem]
    ELSE LET n == rem * 16 + u[1]
             rest == DivMod10(Tail(u), n % 10)
         IN  [q |-> <<n \div 10>> \o rest.q, r |-> rest.r]

\* fmt.Sprintf("%d", u) and strconv.FormatUint(u, 10): the decimal digits of
\* u, the most significant first, as characters.
RECURSIVE FormatDec(_)
FormatDec(u) ==
    LET d == DivMod10(u, 0)
    IN  IF \A i \in 1 .. Len(d.q) : d.q[i] = 0
        THEN <<48 + d.r>>
        ELSE FormatDec(d.q) \o <<48 + d.r>>

\* u # 0
NonZero(u) == \E i \in 1 .. Len(u) : u[i] # 0

\* fmt.Sprintf("%d 1000000", r.CPU*1000)
CpuMax(cpu) == FormatDec(Mul32(cpu, 1000)) \o <<32, 49, 48, 48, 48, 48, 48, 48>>

\* d.cgval() of a DiskIOLimits: "major:minor" and, for each limit that is
\* not 0, its name and its value.
cgval(d) ==
    LET vals == SelectSeq(<< <<"rbps", d.ReadBPS>>, <<"wbps", d.WriteBPS>>,
                             <<"riops", d.ReadIOPS>>, <<"wiops", d.WriteIOPS>> >>,
                          LAMBDA v : v[2] # 0)
    IN  [dev |-> FormatDec(DigitsOf(d.Major)) \o <<58>> \o FormatDec(DigitsOf(d.Minor)),
         vals |-> [i \in 1 .. Len(vals) |-> <<vals[i][1], FormatDec(DigitsOf(vals[i][2]))>>]]

\* What execPart2 writes to the file of a limit for the ResourceLimits res.
CgValue(file, res) ==
    CASE file = "pids.max" -> FormatDec(res.MaxProcesses)
      [] file = "memory.max" -> FormatDec(res.Memory)
      [] file = "cpu.max" -> CpuMax(res.CPU)
      [] file = "io.max" -> cgval(res.IO[1])

\* The files of the limits of res that are set: a limit of 0 is not
\* written.
LimitsOf(res) ==
    {f \in {"pids.max"} : NonZero(res.MaxProcesses)}
        \cup {f \in {"memory.max"} : NonZero(res.Memory)}
        \cup {f \in {"cpu.max"} : NonZero(res.CPU)}
        \cup {f \in {"io.max"} : res.IO # <<>>}

\* A DiskIOLimits of the device 8:0 with these limits.
DiskIOLimits(rbps, wbps, riops, wiops) ==
    [Major |-> 8, Minor |-> 0,
     ReadBPS |-> rbps, WriteBPS |-> wbps, ReadIOPS |-> riops, WriteIOPS |-> wiops]

\* ResourceLimits with a limit of 1 for each file of limits.
ResourcesOf(limits) ==
    LET one(f) == IF f \in limits THEN Uint32FromInt(1) ELSE Uint32FromInt(0)
    IN  [MaxProcesses |-> one("pids.max"), Memory |-> one("memory.max"),
         CPU |-> one("cpu.max"),
         IO |-> IF "io.max" \in limits THEN <<DiskIOLimits(1, 1, 1, 1)>> ELSE <<>>]

\* strconv.ParseUint(s, 10, bits) of decimal digits that fit the bits.
RECURSIVE ParseUint(_)
ParseUint(s) ==
    IF s = <<>> THEN 0 ELSE ParseUint(SubSeq(s, 1, Len(s) - 1)) * 10 + (s[Len(s)] - 48)

\* d.String(): the six fields that the colons separate.
String(d) ==
    << FormatDec(DigitsOf(d.Major)), FormatDec(DigitsOf(d.Minor)),
       FormatDec(DigitsOf(d.ReadBPS)), FormatDec(DigitsOf(d.WriteBPS)),
       FormatDec(DigitsOf(d.ReadIOPS)), FormatDec(DigitsOf(d.WriteIOPS)) >>

\* d.UnmarshalText of six fields: major, minor and the four limits, where
\* an empty limit is 0.
UnmarshalText(parts) ==
    LET parseVal(s, optional) == IF optional /\ s = <<>> THEN 0 ELSE ParseUint(s)
    IN  [Major |-> parseVal(parts[1], FALSE), Minor |-> parseVal(parts[2], FALSE),
         ReadBPS |-> parseVal(parts[3], TRUE), WriteBPS |-> parseVal(parts[4], TRUE),
         ReadIOPS |-> parseVal(parts[5], TRUE), WriteIOPS |-> parseVal(parts[6], TRUE)]

\* The DiskIOLimits that newJobSpec of the service makes of the DiskIOLimit
\* pblim of a request, for a device that ResolveDevice finds to be 8:0.
newJobSpec(pblim) ==
    [Major |-> 8, Minor |-> 0,
     ReadBPS |-> pblim.ReadBps, WriteBPS |-> pblim.WriteBps,
     ReadIOPS |-> pblim.ReadIops, WriteIOPS |-> pblim.ReadIops]

\* The DiskIOLimits of the child for the DiskIOLimits d of the Job:
\* ProcSelfArgMaker passes d.String() after --io and the child unmarshals it.
ProcSelfArgMaker(d) == UnmarshalText(String(d))

\* NewJob and the start of ExecPart1 for a JobSpec with the ResourceLimits
\* res, made for the io limit req of a request (<<>> when there is none);
\* files are the files of limits that the child has written.
NewProcReq(root, res, req) ==
    [ pc |-> "start", root |-> root, limits |-> LimitsOf(res),
      child |-> "none", did |-> <<>>, failed |-> "none", pipe |-> <<>>, status |-> -1,
      read |-> <<>>, eof |-> FALSE, err |-> [kind |-> "none"], cmd |-> FALSE,
      rmdirs |-> 0, res |-> res, files |-> [f \in {} |-> <<>>], req |-> req,
      waited |-> FALSE ]

NewProcOf(root, res) == NewProcReq(root, res, <<>>)

\* NewJob and the start of ExecPart1 for a spec.
NewProc(root, limits) == NewProcOf(root, ResourcesOf(limits))

LaunchUnchanged ==
    UNCHANGED <<inVars, feederVars, doneClosed, subVars, jobs, heap, waiting, resp>>

\* cmd.StdoutPipe(), cmd.StderrPipe() and cmd.Start(): an error of one of
\* them is returned; otherwise the child runs and ExecPart1 goes on to read
\* the stderr pipe.
CmdStart(ok) ==
    /\ proc.pc = "start"
    /\ proc' = IF ok
               THEN [proc EXCEPT !.pc = "readall", !.child = "setup"]
               ELSE [proc EXCEPT !.pc = "returned", !.err = [kind |-> "start"]]
    /\ LaunchUnchanged

\* The next system call of ExecPart2 in the child.  When it fails its error
\* is written to the stderr of the child and ExecPart2 returns; a successful
\* exec replaces the child by the command, whose stderr is the stdout pipe:
\* the descriptors of the stderr pipe are closed then.
ExecPart2(ok) ==
    /\ proc.pc # "none"
    /\ proc.child = "setup"
    /\ LET step == Steps(proc.root, proc.limits)[Len(proc.did) + 1]
       IN  proc' = IF ok
                   THEN [proc EXCEPT !.did = Append(@, step),
                                     !.child = IF step = "exec" THEN "execed" ELSE @,
                                     !.files = IF step \in Range(LimitFiles)
                                               THEN (step :> CgValue(step, proc.res)) @@ @
                                               ELSE @]
                   ELSE [proc EXCEPT !.did = Append(@, step),
                                     !.failed = step,
                                     !.pipe = @ \o Diag(step),
                                     !.child = "failed"]
    /\ LaunchUnchanged

\* ExecPart2 has returned after an error: CmdRunContainer.Run returns and
\* main ends, which closes the descriptors of the child.
ChildReturn ==
    /\ proc.pc # "none"
    /\ proc.child = "failed"
    /\ proc' = [proc EXCEPT !.child = "exited", !.status = ExitStatus(RunContainer)]
    /\ LaunchUnchanged

\* ExecPart1 from the return of io.ReadAll(stderr) on, which read errmsg and
\* returned the error rerr.
ExecPart1Returns(errmsg, rerr) ==
    LET p == [proc EXCEPT !.pc = "returned", !.read = errmsg, !.eof = (rerr = "nil")]
    IN  IF rerr # "nil"
        THEN [p EXCEPT !.rmdirs = @ + 1, !.err = [kind |-> "read"]]
        ELSE IF Len(errmsg) > 0
        THEN [p EXCEPT !.rmdirs = @ + 1, !.err = [kind |-> "setup", msg |-> errmsg]]
        ELSE [p EXCEPT !.cmd = TRUE, !.err = [kind |-> "nil"]]

\* io.ReadAll(stderr) returns: at the end of file, which comes when the
\* child has exec'ed the command or has exited, with all the bytes of the
\* pipe; or on an error of the read, with the bytes read until then.
ReadAll ==
    /\ proc.pc = "readall"
    /\ \/ /\ proc.child \in {"execed", "exited"}
          /\ proc' = ExecPart1Returns(proc.pipe, "nil")
       \/ \E n \in 0 .. Len(proc.pipe) :
             proc' = ExecPart1Returns(SubSeq(proc.pipe, 1, n), "EIO")
    /\ LaunchUnchanged

\* The goroutine of Job.Start after a launch without error: when the
\* output of the command has ended, cmd.Wait() on j.cmd reaps the child.
cmdWait ==
    /\ proc.pc = "returned"
    /\ proc.cmd
    /\ ~proc.waited
    /\ proc' = [proc EXCEPT !.waited = TRUE]
    /\ LaunchUnchanged

LaunchNext ==
    \/ \E ok \in BOOLEAN : CmdStart(ok)
    \/ \E ok \in BOOLEAN : ExecPart2(ok)
    \/ ChildReturn
    \/ ReadAll
    \/ cmdWait

\* The launch specification: one launch for every JobSpec with or without a
\* Root and with any of the limits.
LaunchInit ==
    /\ InitInfeed({Reader(<<>>, "EOF")}, 0)
    /\ InitFeeder
    /\ jobs = [id \in {} |-> 0]
    /\ heap = <<>>
    /\ waiting = NoCall
    /\ resp = NoResp
    /\ proc \in { NewProc(root, limits) :
                    root \in BOOLEAN, limits \in SUBSET Range(LimitFiles) }

SpecLaunch == LaunchInit /\ [][LaunchNext]_vars

C27_FailedStepIsFatal ==
    /\ proc.pc # "none" =>
          proc.did = SubSeq(Steps(proc.root, proc.limits), 1, Len(proc.did))
    /\ (proc.pc # "none" /\ proc.failed # "none") =>
          /\ proc.pipe # <<>>
          /\ proc.did[Len(proc.did)] = proc.failed
          /\ proc.child \in {"failed", "exited"}
          /\ proc.child = "exited" => proc.status # 0


\* ------------------------------------------------------------------------
\* Tracker.mu while a call waits
\* ------------------------------------------------------------------------

\* Tracker.mu is held by a Tracker.Stop that waits in the select of
\* Job.Stop: its defer t.mu.Unlock() runs when Stop returns.
MuHeld == waiting # NoCall

\* C28: no call waits with Tracker.mu held, so that a Get by any caller for
\* any id can take the mutex and return whenever a caller is free to call -
\* also while a Stop waits for the reap or for the end of its context.
C28_GetIsNeverDelayed ==
    resp = NoResp =>
        /\ ~MuHeld
        /\ \A user \in Callers, id \in Ids : ENABLED Get(user, id)


\* ------------------------------------------------------------------------
\* Job.Cleanup
\* ------------------------------------------------------------------------

C31_StateIsMonotonic ==
    /\ [](\A k \in 1 .. Len(heap) :
             heap[k].State \in {"Running", "Completed"} => ~LaunchFailed(k))
    /\ [][/\ Len(heap') >= Len(heap)
          /\ \A k \in 1 .. Len(heap) :
                /\ heap'[k].State # heap[k].State =>
                      /\ heap[k].State = "Running" /\ heap'[k].State = "Completed"
                      /\ heap[k].infeed = "closed"
                /\ heap'[k].StartTime = heap[k].StartTime
                /\ heap'[k].Owner = heap[k].Owner
                /\ heap'[k].ID = heap[k].ID
         ]_vars


\* ------------------------------------------------------------------------
\* The exit code of a Job
\* ------------------------------------------------------------------------

\* The statuses with which a child exits by itself in the exit
\* specification.
ExitStatuses == {0, 1, 2, 127, 128, 255}

\* The exit specification: jobs of alice whose child writes nothing and
\* exits with any of ExitStatuses or is killed by a Stop.
ExitNext ==
    \/ \E now \in Now : Start("alice", <<97>>, "ok", 0, Rands, now)
    \/ \E k \in 1 .. Len(heap), status \in ExitStatuses : ChildExits(k, status)
    \/ \E id \in Ids, cleanup \in BOOLEAN : Stop("alice", id, cleanup)
    \/ StopReaped
    \/ StopCancelled
    \/ Return
    \/ \E k \in 1 .. Len(heap) : JobInfeedEOF(k)
    \/ \E k \in 1 .. Len(heap) : JobFeederDone(k)
    \/ \E k \in 1 .. Len(heap) : JobReap(k)

SpecExit == TrackerInit /\ [][ExitNext]_vars

\* The number that the uint32 u is, when u < 2^16.
Low16(u) == ((u[5] * 16 + u[6]) * 16 + u[7]) * 16 + u[8]

\* C32: the exit code of a Job is always in 0 .. 255; it is 0 until the Job
\* is reaped; the exit code of a Completed Job is the exit status of its
\* child when the child exited, and 255 when a signal ended the child,
\* which is the case of a child that a Stop killed; the exit error is nil
\* exactly for a child that exited with status 0.
C32_ExitCodeIsMasked ==
    \A k \in 1 .. Len(heap) :
        LET j == heap[k] IN
        /\ \A i \in 1 .. 6 : j.ExitCode[i] = 0
        /\ Low16(j.ExitCode) \in 0 .. 255
        /\ j.State # "Completed" => Low16(j.ExitCode) = 0 /\ j.ExitError = "nil"
        /\ j.State = "Completed" =>
              /\ j.wstatus.kind \in {"exited", "signaled"}
              /\ j.wstatus.kind = "exited" => Low16(j.ExitCode) = j.wstatus.status
              /\ j.wstatus.kind = "signaled" =>
                    /\ j.signals = <<"SIGKILL">>
                    /\ Low16(j.ExitCode) = 255
              /\ j.ExitError = "nil" <=> j.wstatus = Exited(0)

\* A Stop has killed the child of a Job and returned after the reap: the
\* exit code of the Job is 255.
C32_Witness ==
    /\ resp.op = "Stop" /\ resp.err = "nil" /\ resp.how = "reaped"
    /\ \E k \in 1 .. Len(heap) :
          /\ heap[k].ID = resp.id
          /\ heap[k].State = "Completed"
          /\ heap[k].wstatus = Signaled("SIGKILL")
          /\ heap[k].ExitCode = U32(0, 0, 0, 0, 0, 0, 15, 15)
          /\ heap[k].ExitError = "ExitError"


\* ------------------------------------------------------------------------
\* The values written to the files of the limits
\* ------------------------------------------------------------------------

\* The values of r.CPU of the limits specification: 0, 1, 1000, 4294967
\* and 4294968, 2^31 - 1 and 2^31, and 2^32 - 1.
CPUs ==
    { U32(0, 0, 0, 0, 0, 0, 0, 0), U32(0, 0, 0, 0, 0, 0, 0, 1),
      U32(0, 0, 0, 0, 0, 3, 14, 8), U32(0, 0, 4, 1, 8, 9, 3, 7),
      U32(0, 0, 4, 1, 8, 9, 3, 8), U32(7, 15, 15, 15, 15, 15, 15, 15),
      U32(8, 0, 0, 0, 0, 0, 0, 0), U32(15, 15, 15, 15, 15, 15, 15, 15) }

\* The limits specification: a launch for each of these values of r.CPU.
LimitsInit ==
    /\ InitInfeed({Reader(<<>>, "EOF")}, 0)
    /\ InitFeeder
    /\ jobs = [id \in {} |-> 0]
    /\ heap = <<>>
    /\ waiting = NoCall
    /\ resp = NoResp
    /\ proc \in { NewProcOf(FALSE, [ResourcesOf({}) EXCEPT !.CPU = cpu]) : cpu \in CPUs }

SpecLimits == LimitsInit /\ [][LaunchNext]_vars

\* C33: the child writes cpu.max only for a r.CPU that is not 0, and what
\* it writes is the decimal of the product r.CPU x 1000, not cut to 32
\* bits, followed by " 1000000".
C33_CpuMaxIsExactProduct ==
    proc.pc # "none" =>
        IF NonZero(proc.res.CPU)
        THEN "cpu.max" \in DOMAIN proc.files =>
                proc.files["cpu.max"] =
                    FormatDec(MulExact(proc.res.CPU, 1000))
                        \o <<32, 49, 48, 48, 48, 48, 48, 48>>
        ELSE "cpu.max" \notin DOMAIN proc.files


\* ------------------------------------------------------------------------
\* The io limits of a request
\* ------------------------------------------------------------------------

\* The values of a field of a DiskIOLimit of a request.
IOVals == {0, 1, 2}

\* The DiskIOLimit messages of the requests.
PbDiskIOLimits ==
    [ReadBps : IOVals, WriteBps : IOVals, ReadIops : IOVals, WriteIops : IOVals]

\* Run of the service for a request with one io limit: newJobSpec, then the
\* launch whose child gets the limit on its command line.
RunInit ==
    /\ InitInfeed({Reader(<<>>, "EOF")}, 0)
    /\ InitFeeder
    /\ jobs = [id \in {} |-> 0]
    /\ heap = <<>>
    /\ waiting = NoCall
    /\ resp = NoResp
    /\ proc \in { NewProcReq(FALSE,
                             [ResourcesOf({}) EXCEPT
                                 !.IO = <<ProcSelfArgMaker(newJobSpec(pblim))>>],
                             pblim) : pblim \in PbDiskIOLimits }

SpecRun == RunInit /\ [][LaunchNext]_vars

\* C36: when the child has written io.max, the io limit of the job has the
\* four values of the request, and the line written to io.max has, in the order rbps, wbps, riops, wiops,
\* each value of the request that is not 0 and nothing else.
C36_IOLimitsCarriedUnchanged ==
    (proc.pc # "none" /\ "io.max" \in DOMAIN proc.files) =>
        LET d == proc.res.IO[1]
            req == proc.req
            want == SelectSeq(<< <<"rbps", req.ReadBps>>, <<"wbps", req.WriteBps>>,
                                 <<"riops", req.ReadIops>>, <<"wiops", req.WriteIops>> >>,
                              LAMBDA v : v[2] # 0)
        IN  /\ d.ReadBPS = req.ReadBps
            /\ d.WriteBPS = req.WriteBps
            /\ d.ReadIOPS = req.ReadIops
            /\ d.WriteIOPS = req.WriteIops
            /\ Len(proc.files["io.max"].vals) = Len(want)
            /\ \A i \in 1 .. Len(want) :
                  /\ proc.files["io.max"].vals[i][1] = want[i][1]
                  /\ ParseUint(proc.files["io.max"].vals[i][2]) = want[i][2]


\* ------------------------------------------------------------------------
\* The loop of allocateID
\* ------------------------------------------------------------------------

\* The draws of rand.Uint32() in one allocateID that the allocation
\* specification follows.
MaxRolls == 33

\* Tracker.Start up to the first id of allocateID that is a key of t.jobs:
\* the loop goes on, with Tracker.mu held.
allocateIDCollides(user, command, rands) ==
    /\ Unlocked
    /\ user # NoUser
    /\ command # <<>>
    /\ Len(heap) < MaxJobs
    /\ \E rnd \in rands : ~FreeID(jobs, TryID(command, rnd))
    /\ waiting' = [op |-> "Start", user |-> user, command |-> command, rolls |-> 1]
    /\ UNCHANGED <<jobs, heap, resp, clock>>
    /\ FeederVarsUnchanged

\* The next turn of the loop of allocateID: an id that is not a key is
\* returned and Tracker.Start goes on to its return; any other id is
\* dropped and the loop goes on.
allocateIDRolls(rands) ==
    /\ waiting.op = "Start"
    /\ \E rnd \in rands :
          LET id == TryID(waiting.command, rnd) IN
          IF FreeID(jobs, id)
          THEN /\ heap' = Append(heap, StartedJob(id, waiting.user, clock, "ok", 0))
               /\ jobs' = Track(jobs, id, Len(heap) + 1, "ok")
               /\ resp' = Resp("Start", waiting.user, <<>>, NoFlags, "nil", id)
               /\ waiting' = NoCall
          ELSE /\ waiting.rolls < MaxRolls
               /\ waiting' = [waiting EXCEPT !.rolls = @ + 1]
               /\ UNCHANGED <<jobs, heap, resp>>
    /\ UNCHANGED clock
    /\ FeederVarsUnchanged

\* Tracker.Start of commands that start, turn by turn of allocateID.
AllocNext ==
    \/ \E command \in Commands \ {<<>>} : Start("alice", command, "ok", 0, Rands, clock)
    \/ \E command \in Commands \ {<<>>} : allocateIDCollides("alice", command, Rands)
    \/ allocateIDRolls(Rands)
    \/ Return

SpecAlloc == TrackerInit /\ [][AllocNext]_vars

\* C34: Tracker.Start never draws more than 32 ids in allocateID: after 32
\* ids that are tracked it has returned an error.
C34_AllocationIsCapped ==
    waiting.op = "Start" => waiting.rolls <= 32


\* C35: Stop, Get and GetLogChannel by a caller who is not an admin answer
\* ErrUnknown both for an id that is not tracked and for the id of a job
\* of another owner.
C35_ForeignIdIsUnknown ==
    [][\A op \in {"Get", "Stop", "GetLogChannel"} :
          (/\ Returns(op)
           /\ resp'.user \in Users \ admins
           /\ IF resp'.id \in DOMAIN jobs
              THEN heap[jobs[resp'.id]].Owner # resp'.user
              ELSE TRUE) =>
              resp'.err = "ErrUnknown"]_vars


\* ------------------------------------------------------------------------
\* The closing of the channels of the outfeeds
\* ------------------------------------------------------------------------

\* The outfeed of consumer s is one of the feeds fs.
InSet(fs, s) == \E k \in 1 .. Len(fs) : fs[k].sub = s

\* C37: no channel of an outfeed is closed twice, and while the feeder runs
\* no outfeed of f.outfeeds and no send case of f.cases has a closed
\* channel; a channel is closed in the step in which its outfeed leaves
\* f.outfeeds, or Start returns with the outfeed in f.outfeeds, or
\* addOutfeed turns the outfeed away, and in no other step.
C37_ChannelsClosedOnce ==
    /\ [](\A s \in Subs :
            /\ sub[s].closes <= 1
            /\ sub[s].st = "closed" <=> sub[s].closes = 1
            /\ ~exited =>
                  /\ InSet(outfeeds, s) => sub[s].st = "open"
                  /\ \A k \in 1 .. Len(cases) :
                        (cases[k].Dir = "send" /\ cases[k].Chan = Chan("ch", s))
                            => sub[s].st = "open")
    /\ [][\A s \in Subs :
            LET closed == sub'[s].closes = sub[s].closes + 1
                leaves == InSet(outfeeds, s) /\ ~InSet(outfeeds', s)
                shutdown == InSet(outfeeds, s) /\ ~exited /\ exited'
                rejected == /\ sub[s].st = "attaching" /\ sub'[s].st = "closed"
                            /\ ~InSet(outfeeds, s) /\ ~InSet(outfeeds', s)
            IN  /\ sub'[s].closes \in {sub[s].closes, sub[s].closes + 1}
                /\ closed <=> (leaves \/ shutdown \/ rejected)
                /\ (sub[s].st = "closed" /\ InSet(outfeeds', s)) => InSet(outfeeds, s)]_vars

\* Channels have been closed at an attach, at a cancellation, at the end
\* of the buffer or of infeed, and at the shutdown.
C37_Witness ==
    /\ exited
    /\ \E s \in Subs : sub[s].closedBy = "shutdown" /\ sub[s].closes = 1
    /\ \E s \in Subs : sub[s].closedBy \in {"attach", "cancel", "end", "sealed"}
                          /\ sub[s].closes = 1


\* C38: when ExecPart1 has returned after it started a child and read its
\* stderr to the end, with or without an error of the setup, the child has
\* been waited on or the server goes on to wait on it.
C38_EveryChildIsReaped ==
    (proc.pc = "returned" /\ proc.child # "none" /\ proc.eof /\ ~proc.waited)
        => ENABLED cmdWait


\* C39: a job that Tracker.Stop removes from t.jobs is Completed, with its
\* cgroup removed, in the step that removes it, and its feeder is shut
\* down then.
C39_RemovedJobIsCompleted ==
    [][\A id \in DOMAIN jobs \ DOMAIN jobs' :
          /\ heap'[jobs[id]].State = "Completed"
          /\ heap'[jobs[id]].cgroup = "removed"
          /\ heap'[jobs[id]].done]_vars


\* C40: when the job is Completed, infeed has read its reader to the end
\* and has no Log left to send, the buffer holds every record of the
\* output, and no step changes the buffer from then on.
C40_CompletedAfterIngest ==
    /\ [](State = "Completed" =>
            /\ Sealed
            /\ r.data = <<>>
            /\ pending = NoLog
            /\ ConcatLines(buffer) = output
            /\ Len(buffer) * 2 = Len(output))
    /\ [][State = "Completed" => (buffer' = buffer /\ State' = "Completed")]_vars

\* The job is Completed after an output of two lines or more, which a
\* consumer has received in full.
C40_Witness ==
    /\ State = "Completed"
    /\ Len(buffer) >= 2
    /\ \E s \in Subs : received[s] = buffer

====
